---------------------------- MODULE Spec2Model ----------------------------
(***************************************************************************)
(* Template filling of resume_tailor: structure extraction, fill-plan      *)
(* validation, the repair loop and the fill executor, in the DOCX variant  *)
(* (templates/smart_filler.py) and the HWPX variant                        *)
(* (templates/hwpx_filler.py).                                             *)
(*                                                                         *)
(* Conventions.                                                            *)
(*  - Python indices are 0-based; TLA+ sequences are 1-based.  Every index *)
(*    that appears in a structure description, a plan or an error is the   *)
(*    Python value; only the sequence accesses add 1.                      *)
(*  - A row is the list `row.cells`: one entry per grid column.  The       *)
(*    entries of one horizontally merged cell share their `tc` (the        *)
(*    underlying <w:tc> element, whose id() the code compares) and their   *)
(*    text.  Vertical merges are not modelled.                             *)
(*  - Strings stand for the source's texts.  The Korean label keywords are *)
(*    written in ASCII: "gigan" (period), "hoesa" (company),               *)
(*    "jigwi" (position), "seongmyeong" (name).                            *)
(*  - dict.get(key) is None  <=>  key \notin DOMAIN of the record.         *)
(***************************************************************************)
EXTENDS Integers, Sequences, FiniteSets, TLC

VARIABLES
    variant,        \* "docx" (smart_fill_docx) or "hwpx" (smart_fill_hwpx)
    maxAttempts,    \* the max_attempts argument
    template,       \* the document in the file at the template path
    outputPath,     \* the output_path argument
    structure,      \* the extracted Structure Description
    plan,           \* the current fill plan (the local `plan`)
    errors,         \* the local `errors`: Unbound, or a list of error records
    attempt,        \* the loop variable of `for attempt in range(max_attempts)`
    pc,             \* position in the fill operation
    live,           \* the document object an operation has opened
    output,         \* the file at the output path
    counts,         \* [filled, failed] of execute_fill_plan
    raised,         \* the exception that ended the run, "" if none
    calls,          \* how often each collaborator has been called
    history,        \* the arguments and results of the last call of each
    peer            \* a second fill operation, suspended at an await

vars == <<variant, maxAttempts, template, outputPath, structure, plan, errors,
          attempt, pc, live, output, counts, raised, calls, history, peer>>

---------------------------------------------------------------------------
(* Program constant and bounds *)

MAX_ADD_ROWS == 20

MaxAttemptsBound == 2

MaxRows == 2

MaxItems == 2

\* The longest fills list of the plans (FillLists, PairItems).
MaxFillsPerItem == 2

\* The most runs a paragraph of the placeholder templates has.
MaxRuns == 3

\* The widest grid of the templates the header rules are checked on.
MaxCols == 5

\* Entries handed to one call of fill_table_template.
MaxEntries == 2

\* Sections of the resume handed to one call of generate_docx.
MaxSections == 2

---------------------------------------------------------------------------
(* Python helpers *)

Max(a, b) == IF a > b THEN a ELSE b

\* seq[i] of a Python list of length n is defined for -n <= i < n.
PyInRange(n, i) == -n <= i /\ i < n

\* The 1-based position that Python index i (negative: from the end) names.
PyPos(n, i) == IF i >= 0 THEN i + 1 ELSE n + i + 1

\* str.strip() on the texts of the model: " " is the whitespace-only text.
Strip(t) == IF t = " " THEN "" ELSE t

\* _strip_md: emphasis markers and heading marks removed, then strip().
StripMd(v) ==
    CASE v = "**Lead**" -> "Lead"
      [] v = "# ACME"   -> "ACME"
      [] OTHER          -> Strip(v)

RECURSIVE Flatten(_)
Flatten(ss) == IF ss = <<>> THEN <<>> ELSE Head(ss) \o Flatten(Tail(ss))

---------------------------------------------------------------------------
(* Documents *)

\* python-docx: doc.tables are the body's tables, doc.paragraphs the body's
\* paragraphs.  python-hwpx: doc.paragraphs are all paragraphs, and a table
\* lives in its hosting paragraph (para.tables).
DocTables(v, doc) ==
    IF v = "docx" THEN doc.tables
    ELSE Flatten([i \in 1..Len(doc.paragraphs) |-> doc.paragraphs[i].tables])

\* table.column_count / len(table.columns): the width of the grid.
ColumnCount(table) == IF table = <<>> THEN 0 ELSE Len(table[1])

\* cell.text of the grid cell at 1-based position p of a row.
CellText(cells, p) == cells[p].text

---------------------------------------------------------------------------
(* Step 1: structure extraction *)

\* The label_keywords test `any(kw in c["text"] for kw in label_keywords)`
\* on the texts of the model.
LabelTexts == {"gigan", "hoesa", "jigwi", "seongmyeong"}

HasLabelKeyword(text) == text \in LabelTexts

\* span = sum(1 for c in row.cells if id(c._tc) == cid)
SpanOf(cells, tc) == Cardinality({q \in 1..Len(cells) : cells[q].tc = tc})

\* The inner loop of extract_docx_structure over row.cells, from grid
\* position p on, with the set seen_ids and the counter unique_idx.
RECURSIVE DocxCellsFrom(_, _, _, _)
DocxCellsFrom(cells, p, seen_ids, unique_idx) ==
    IF p > Len(cells) THEN <<>>
    ELSE IF cells[p].tc \in seen_ids
         THEN DocxCellsFrom(cells, p + 1, seen_ids, unique_idx)
         ELSE <<[col   |-> unique_idx,
                 text  |-> Strip(CellText(cells, p)),
                 span  |-> SpanOf(cells, cells[p].tc),
                 empty |-> Strip(CellText(cells, p)) = ""]>>
              \o DocxCellsFrom(cells, p + 1, seen_ids \cup {cells[p].tc},
                               unique_idx + 1)

DocxCellsInfo(cells) == DocxCellsFrom(cells, 1, {}, 0)

\* The inner loop of extract_hwpx_structure: one entry per grid column,
\* col = ci, no merge deduplication.
HwpxCellsInfo(cells) ==
    [p \in 1..Len(cells) |->
        [col   |-> p - 1,
         text  |-> Strip(CellText(cells, p)),
         span  |-> 1,
         empty |-> Strip(CellText(cells, p)) = ""]]

CellsInfo(v, cells) ==
    IF v = "docx" THEN DocxCellsInfo(cells) ELSE HwpxCellsInfo(cells)

\* all_rows_data of one table.
AllRowsData(v, table) ==
    [r \in 1..Len(table) |-> [row |-> r - 1, cells |-> CellsInfo(v, table[r])]]

NonEmptyCells(cells) == SelectSeq(cells, LAMBDA c : ~c.empty)

EmptyCells(cells) == SelectSeq(cells, LAMBDA c : c.empty)

\* IsHeaderRow without the test `non_empty_ratio >= 0.6` of the next-row
\* rule: half-filled rows before a mostly empty row are headers too.
IsHeaderRowHalf(ri, cells, all_rows) ==
    LET n  == Max(Len(cells), 1)
        ne == NonEmptyCells(cells)
        k  == Len(ne)
        label_like == Len(SelectSeq(ne, LAMBDA c : HasLabelKeyword(c.text)))
    IN  IF ri < 2 /\ 10 * k > 3 * n THEN TRUE
        ELSE IF 2 * k >= n
        THEN IF label_like >= 2 THEN TRUE
             ELSE IF ri + 1 < Len(all_rows)
             THEN LET next_cells == all_rows[ri + 2].cells
                      m == Max(Len(next_cells), 1)
                      e == Len(EmptyCells(next_cells))
                  IN  2 * e >= m
             ELSE FALSE
        ELSE FALSE

\* _is_header_row(ri, cells, all_rows); the float ratios are compared as
\* integer cross-products: k/n > 0.3 <=> 10k > 3n, and so on.
IsHeaderRow(ri, cells, all_rows) ==
    LET n  == Max(Len(cells), 1)
        ne == NonEmptyCells(cells)
        k  == Len(ne)
        label_like == Len(SelectSeq(ne, LAMBDA c : HasLabelKeyword(c.text)))
    IN  IF ri < 2 /\ 10 * k > 3 * n THEN TRUE
        ELSE IF 2 * k >= n
        THEN IF label_like >= 2 THEN TRUE
             ELSE IF ri + 1 < Len(all_rows)
             THEN LET next_cells == all_rows[ri + 2].cells
                      m == Max(Len(next_cells), 1)
                      e == Len(EmptyCells(next_cells))
                  IN  2 * e >= m /\ 10 * k >= 6 * n
             ELSE FALSE
        ELSE FALSE

\* ClassifiedHeader by position first: the first two rows are headers, the
\* all_empty test is gone.
ClassifiedHeaderByPosition(row_data, all_rows) ==
    \/ row_data.row < 2
    \/ IsHeaderRow(row_data.row, row_data.cells, all_rows)

\* The second pass of the extractor: is row_data appended to header_rows?
ClassifiedHeader(row_data, all_rows) ==
    /\ Len(NonEmptyCells(row_data.cells)) # 0
    /\ IsHeaderRow(row_data.row, row_data.cells, all_rows)

\* TableInfo without the final `else`: only all-empty rows become data rows.
TableInfoNoElse(v, ti, table) ==
    LET all_rows == AllRowsData(v, table)
    IN  [idx         |-> ti,
         rows        |-> Len(table),
         cols        |-> ColumnCount(table),
         header_rows |-> SelectSeq(all_rows,
                            LAMBDA rd : ClassifiedHeader(rd, all_rows)),
         data_rows   |-> SelectSeq(all_rows,
                            LAMBDA rd : Len(NonEmptyCells(rd.cells)) = 0)]

\* One table of the structure: table_info after the second pass.
TableInfo(v, ti, table) ==
    LET all_rows == AllRowsData(v, table)
    IN  [idx         |-> ti,
         rows        |-> Len(table),
         cols        |-> ColumnCount(table),
         header_rows |-> SelectSeq(all_rows,
                            LAMBDA rd : ClassifiedHeader(rd, all_rows)),
         data_rows   |-> SelectSeq(all_rows,
                            LAMBDA rd : ~ClassifiedHeader(rd, all_rows))]

\* structure["paragraphs"]: DOCX numbers every body paragraph and lists the
\* non-empty ones; HWPX numbers every paragraph and lists the non-empty
\* ones that host no table.
RECURSIVE ParagraphsFrom(_, _, _)
ParagraphsFrom(v, paras, i) ==
    IF i > Len(paras) THEN <<>>
    ELSE LET text == Strip(paras[i].text)
             listed == text # "" /\ (v = "docx" \/ paras[i].tables = <<>>)
         IN  (IF listed
              THEN <<[idx |-> i - 1, style |-> "Normal", text |-> text]>>
              ELSE <<>>)
             \o ParagraphsFrom(v, paras, i + 1)

\* extract_docx_structure / extract_hwpx_structure
ExtractStructure(v, doc) ==
    LET tables == DocTables(v, doc)
    IN  [paragraphs |-> ParagraphsFrom(v, doc.paragraphs, 1),
         tables     |-> [t \in 1..Len(tables) |->
                            TableInfo(v, t - 1, tables[t])]]

---------------------------------------------------------------------------
(* Step 2.5: validation of a fill plan *)

HasKey(rec, key) == key \in DOMAIN rec

\* item.get("table_idx", 0)
ItemTableIdx(item) == IF HasKey(item, "table_idx") THEN item.table_idx ELSE 0

\* item.get("fills", [])
ItemFills(item) == IF HasKey(item, "fills") THEN item.fills ELSE <<>>

\* item.get("action", "replace")
ItemAction(item) == IF HasKey(item, "action") THEN item.action ELSE "replace"

\* header_rows_by_table.get(table_idx, set()): the dict is keyed by t["idx"],
\* a later table with the same idx overwrites an earlier one.
HeaderRowsOf(tables, table_idx) ==
    LET hits == {t \in 1..Len(tables) : tables[t].idx = table_idx}
    IN  IF hits = {} THEN {}
        ELSE LET t == CHOOSE u \in hits : \A w \in hits : w <= u
             IN  {tables[t].header_rows[h].row :
                      h \in 1..Len(tables[t].header_rows)}

\* The rows of valid_cols_by_row with key (table_idx, row), in the order the
\* dict is written: per table, header_rows + data_rows.
ValidColsHits(tables, table_idx, row) ==
    LET rowsOf(t) == tables[t].header_rows \o tables[t].data_rows
        perTable  == [t \in 1..Len(tables) |->
                        IF tables[t].idx = table_idx
                        THEN SelectSeq(rowsOf(t), LAMBDA rd : rd.row = row)
                        ELSE <<>>]
    IN  Flatten(perTable)

\* valid_cols_by_row.get((table_idx, row)) is not None
KnowsRow(tables, table_idx, row) == ValidColsHits(tables, table_idx, row) # <<>>

\* ValidCols taken from the table's grid width (t["cols"]) instead of the
\* row's extracted cells.
ValidColsByGrid(tables, table_idx, row) ==
    0..(tables[PyPos(Len(tables), table_idx)].cols - 1)

\* valid_cols_by_row[(table_idx, row)]: the last write wins.
ValidCols(tables, table_idx, row) ==
    LET hits == ValidColsHits(tables, table_idx, row)
        rd   == hits[Len(hits)]
    IN  {rd.cells[c].col : c \in 1..Len(rd.cells)}

\* ValidateFills without `seen_cells.add(cell_key)`.
RECURSIVE ValidateFillsNoSeen(_, _, _, _, _, _, _)
ValidateFillsNoSeen(tables, i, table_idx, row, fills, f, acc) ==
    IF f > Len(fills) THEN acc
    ELSE IF ~HasKey(fills[f], "col")
    THEN ValidateFillsNoSeen(tables, i, table_idx, row, fills, f + 1, acc)
    ELSE
      LET col      == fills[f].col
          cell_key == <<table_idx, row, col>>
          dup == IF cell_key \in acc.seen_cells
                 THEN <<[item |-> i, kind |-> "duplicate",
                         table_idx |-> table_idx, row |-> row, col |-> col]>>
                 ELSE <<>>
          bad == IF /\ KnowsRow(tables, table_idx, row)
                    /\ col \notin ValidCols(tables, table_idx, row)
                 THEN <<[item |-> i, kind |-> "col",
                         table_idx |-> table_idx, row |-> row, col |-> col]>>
                 ELSE <<>>
      IN  ValidateFillsNoSeen(tables, i, table_idx, row, fills, f + 1,
              [errors     |-> acc.errors \o dup \o bad,
               seen_cells |-> acc.seen_cells,
               raised     |-> acc.raised])

\* The loop over item["fills"] of one table item: acc = [errors, seen_cells].
RECURSIVE ValidateFills(_, _, _, _, _, _, _)
ValidateFills(tables, i, table_idx, row, fills, f, acc) ==
    IF f > Len(fills) THEN acc
    ELSE IF ~HasKey(fills[f], "col")
    THEN ValidateFills(tables, i, table_idx, row, fills, f + 1, acc)
    ELSE
      LET col      == fills[f].col
          cell_key == <<table_idx, row, col>>
          dup == IF cell_key \in acc.seen_cells
                 THEN <<[item |-> i, kind |-> "duplicate",
                         table_idx |-> table_idx, row |-> row, col |-> col]>>
                 ELSE <<>>
          bad == IF /\ KnowsRow(tables, table_idx, row)
                    /\ col \notin ValidCols(tables, table_idx, row)
                 THEN <<[item |-> i, kind |-> "col",
                         table_idx |-> table_idx, row |-> row, col |-> col]>>
                 ELSE <<>>
      IN  ValidateFills(tables, i, table_idx, row, fills, f + 1,
              [errors     |-> acc.errors \o dup \o bad,
               seen_cells |-> acc.seen_cells \cup {cell_key},
               raised     |-> acc.raised])

\* ValidateTableItem without the `continue` after the header-row error: the
\* item is also checked for its row range and its fills.
ValidateTableItemNoContinue(struct, i, item, acc) ==
    LET tables    == struct.tables
        table_idx == ItemTableIdx(item)
        one(a, e) == [a EXCEPT !.errors = a.errors \o <<e>>]
    IN  IF table_idx >= Len(tables)
        THEN one(acc, [item |-> i, kind |-> "table_idx", table_idx |-> table_idx])
        ELSE IF ~HasKey(item, "row")
        THEN one(acc, [item |-> i, kind |-> "row_missing"])
        ELSE IF ~PyInRange(Len(tables), table_idx)
        THEN [acc EXCEPT !.raised = "IndexError"]
        ELSE LET table == tables[PyPos(Len(tables), table_idx)]
                 max_row == table.rows + MAX_ADD_ROWS
                 acc1 == IF item.row \in HeaderRowsOf(tables, table_idx)
                         THEN one(acc, [item |-> i, kind |-> "header",
                                        row |-> item.row])
                         ELSE acc
             IN  IF item.row >= max_row
                 THEN one(acc1, [item |-> i, kind |-> "row_range",
                                 row |-> item.row])
                 ELSE ValidateFills(tables, i, table_idx, item.row,
                                    ItemFills(item), 1, acc1)

\* One table item of the loop `for i, item in enumerate(fills)`.
ValidateTableItem(struct, i, item, acc) ==
    LET tables    == struct.tables
        table_idx == ItemTableIdx(item)
        one(e)    == [acc EXCEPT !.errors = acc.errors \o <<e>>]
    IN  IF table_idx >= Len(tables)
        THEN one([item |-> i, kind |-> "table_idx", table_idx |-> table_idx])
        ELSE IF ~HasKey(item, "row")
        THEN one([item |-> i, kind |-> "row_missing"])
        ELSE IF item.row \in HeaderRowsOf(tables, table_idx)
        THEN one([item |-> i, kind |-> "header", row |-> item.row])
        ELSE IF ~PyInRange(Len(tables), table_idx)
        THEN [acc EXCEPT !.raised = "IndexError"]    \* tables[table_idx]
        ELSE LET table == tables[PyPos(Len(tables), table_idx)]
                 max_row == table.rows + MAX_ADD_ROWS
             IN  IF item.row >= max_row
                 THEN one([item |-> i, kind |-> "row_range", row |-> item.row])
                 ELSE ValidateFills(tables, i, table_idx, item.row,
                                    ItemFills(item), 1, acc)

\* ValidateParagraphItem with `>` in place of `>=`: the index
\* len(paragraphs) passes.
ValidateParagraphItemAbove(struct, i, item, acc) ==
    LET n      == Len(struct.paragraphs)
        one(e) == [acc EXCEPT !.errors = acc.errors \o <<e>>]
    IN  IF ItemAction(item) = "replace"
        THEN IF HasKey(item, "paragraph_idx") /\ item.paragraph_idx > n
             THEN one([item |-> i, kind |-> "paragraph_idx",
                       idx |-> item.paragraph_idx])
             ELSE acc
        ELSE IF ItemAction(item) = "insert"
        THEN IF HasKey(item, "after_paragraph_idx")
                /\ item.after_paragraph_idx > n
             THEN one([item |-> i, kind |-> "after_paragraph_idx",
                       idx |-> item.after_paragraph_idx])
             ELSE acc
        ELSE acc

\* One paragraph item.
ValidateParagraphItem(struct, i, item, acc) ==
    LET n      == Len(struct.paragraphs)
        one(e) == [acc EXCEPT !.errors = acc.errors \o <<e>>]
    IN  IF ItemAction(item) = "replace"
        THEN IF HasKey(item, "paragraph_idx") /\ item.paragraph_idx >= n
             THEN one([item |-> i, kind |-> "paragraph_idx",
                       idx |-> item.paragraph_idx])
             ELSE acc
        ELSE IF ItemAction(item) = "insert"
        THEN IF HasKey(item, "after_paragraph_idx")
                /\ item.after_paragraph_idx >= n
             THEN one([item |-> i, kind |-> "after_paragraph_idx",
                       idx |-> item.after_paragraph_idx])
             ELSE acc
        ELSE acc

RECURSIVE ValidateFrom(_, _, _, _)
ValidateFrom(struct, fills, i, acc) ==
    IF i >= Len(fills) \/ acc.raised # "" THEN acc
    ELSE LET item == fills[i + 1]
             target == IF HasKey(item, "target") THEN item.target ELSE ""
             next == IF target = "table"
                     THEN ValidateTableItem(struct, i, item, acc)
                     ELSE IF target = "paragraph"
                     THEN ValidateParagraphItem(struct, i, item, acc)
                     ELSE acc
         IN  ValidateFrom(struct, fills, i + 1, next)

\* validate_fill_plan(structure, plan): [errors, raised]; when raised # ""
\* the call raised that exception and returned nothing.
ValidateFillPlan(struct, p) ==
    LET r == ValidateFrom(struct, p.fill_plan, 0,
                 [errors |-> <<>>, seen_cells |-> {}, raised |-> ""])
    IN  [errors |-> r.errors, raised |-> r.raised]

---------------------------------------------------------------------------
(* Step 3: execution of a fill plan *)

\* _get_unique_cells_with_col without the `seen` set: every grid column is
\* its own cell.
GetUniqueCellsByGrid(cells) == [col \in 0..(Len(cells) - 1) |-> col + 1]

\* _get_unique_cells_with_col(row): col index -> the cell, given as the grid
\* position of its first entry in row.cells.
RECURSIVE UniqueCellsFrom(_, _, _, _)
UniqueCellsFrom(cells, p, seen, unique_idx) ==
    IF p > Len(cells) THEN <<>>
    ELSE IF cells[p].tc \notin seen
         THEN <<p>> \o UniqueCellsFrom(cells, p + 1, seen \cup {cells[p].tc},
                                       unique_idx + 1)
         ELSE UniqueCellsFrom(cells, p + 1, seen, unique_idx)

GetUniqueCellsWithCol(cells) ==
    LET firsts == UniqueCellsFrom(cells, 1, {}, 0)
    IN  [col \in 0..(Len(firsts) - 1) |-> firsts[col + 1]]

\* _set_cell_text on the cell whose first grid entry is at position p: every
\* entry of row.cells that is this cell shows the new text.
SetCellText(cells, p, text) ==
    [q \in 1..Len(cells) |->
        IF cells[q].tc = cells[p].tc
        THEN [cells[q] EXCEPT !.text = text]
        ELSE cells[q]]

\* _add_table_row: a copy of the last row with every text cleared.
BlankCopy(cells) == [q \in 1..Len(cells) |-> [cells[q] EXCEPT !.text = ""]]

AddTableRow(table) == Append(table, BlankCopy(table[Len(table)]))

\* AddRowsWhile with the guard `rows_added <= MAX_ADD_ROWS`: one row more.
RECURSIVE AddRowsWhileOneMore(_, _, _)
AddRowsWhileOneMore(table, row_idx, rows_added) ==
    IF row_idx >= Len(table) /\ rows_added <= MAX_ADD_ROWS
    THEN AddRowsWhileOneMore(AddTableRow(table), row_idx, rows_added + 1)
    ELSE table

\* The loop `while row_idx >= len(table.rows) and rows_added < MAX_ADD_ROWS`.
RECURSIVE AddRowsWhile(_, _, _)
AddRowsWhile(table, row_idx, rows_added) ==
    IF row_idx >= Len(table) /\ rows_added < MAX_ADD_ROWS
    THEN AddRowsWhile(AddTableRow(table), row_idx, rows_added + 1)
    ELSE table

\* The fill loop of smart_filler._execute_table_fill on one row:
\* acc = [cells, filled, failed].
RECURSIVE DocxFillCells(_, _, _)
DocxFillCells(fills, f, acc) ==
    IF f > Len(fills) THEN acc
    ELSE LET fill  == fills[f]
             value == IF HasKey(fill, "value") THEN fill.value ELSE ""
             unique_cells == GetUniqueCellsWithCol(acc.cells)
         IN  IF ~HasKey(fill, "col") \/ value = ""
             THEN DocxFillCells(fills, f + 1, acc)
             ELSE IF fill.col \in DOMAIN unique_cells
             THEN DocxFillCells(fills, f + 1,
                      [acc EXCEPT
                         !.cells  = SetCellText(acc.cells,
                                        unique_cells[fill.col], StripMd(value)),
                         !.filled = acc.filled + 1])
             ELSE DocxFillCells(fills, f + 1,
                      [acc EXCEPT !.failed = acc.failed + 1])

\* smart_filler._execute_table_fill(doc, item) on st = [tables, paragraphs,
\* filled, failed, raised].
DocxExecuteTableFill(st, item) ==
    LET tables    == st.tables
        table_idx == ItemTableIdx(item)
    IN  IF table_idx >= Len(tables) \/ ~HasKey(item, "row")
        THEN [st EXCEPT !.failed = st.failed + 1]
        ELSE IF ~PyInRange(Len(tables), table_idx)
        THEN [st EXCEPT !.raised = "IndexError"]         \* doc.tables[table_idx]
        ELSE
          LET t       == PyPos(Len(tables), table_idx)
              row_idx == item.row
              needs   == row_idx >= Len(tables[t])
          IN  IF needs /\ Len(tables[t]) = 0
              THEN [st EXCEPT !.raised = "IndexError"]   \* table.rows[-1]
              ELSE
                LET grown == AddRowsWhile(tables[t], row_idx, 0)
                    st1   == [st EXCEPT !.tables[t] = grown]
                IN  IF row_idx >= Len(grown)
                    THEN [st1 EXCEPT
                            !.failed = st.failed + Len(ItemFills(item))]
                    ELSE IF ~PyInRange(Len(grown), row_idx)
                    THEN [st1 EXCEPT !.raised = "IndexError"] \* table.rows[row_idx]
                    ELSE
                      LET r   == PyPos(Len(grown), row_idx)
                          res == DocxFillCells(ItemFills(item), 1,
                                     [cells  |-> grown[r],
                                      filled |-> 0, failed |-> 0])
                      IN  [st1 EXCEPT
                             !.tables[t][r] = res.cells,
                             !.filled = st.filled + res.filled,
                             !.failed = st.failed + res.failed]

\* table.set_cell_text(row_idx, col, text) of python-hwpx: addresses the
\* grid; a negative index raises (caught by the caller's try/except).
HwpxCanSetCell(table, row_idx, col) ==
    /\ 0 <= row_idx /\ row_idx < Len(table)
    /\ 0 <= col /\ col < Len(table[row_idx + 1])

\* The fill loop of hwpx_filler._execute_table_fill: acc = [table, filled,
\* failed].
RECURSIVE HwpxFillCells(_, _, _, _)
HwpxFillCells(row_idx, fills, f, acc) ==
    IF f > Len(fills) THEN acc
    ELSE LET fill  == fills[f]
             value == IF HasKey(fill, "value") THEN fill.value ELSE ""
         IN  IF ~HasKey(fill, "col") \/ value = ""
             THEN HwpxFillCells(row_idx, fills, f + 1, acc)
             ELSE IF fill.col >= ColumnCount(acc.table)
             THEN HwpxFillCells(row_idx, fills, f + 1,
                      [acc EXCEPT !.failed = acc.failed + 1])
             ELSE IF HwpxCanSetCell(acc.table, row_idx, fill.col)
             THEN HwpxFillCells(row_idx, fills, f + 1,
                      [acc EXCEPT
                         !.table[row_idx + 1] =
                             SetCellText(acc.table[row_idx + 1],
                                         fill.col + 1, StripMd(value)),
                         !.filled = acc.filled + 1])
             ELSE HwpxFillCells(row_idx, fills, f + 1,
                      [acc EXCEPT !.failed = acc.failed + 1])

\* hwpx_filler._execute_table_fill(tables, item)
HwpxExecuteTableFill(st, item) ==
    LET tables    == st.tables
        table_idx == ItemTableIdx(item)
    IN  IF table_idx >= Len(tables) \/ ~HasKey(item, "row")
        THEN [st EXCEPT !.failed = st.failed + 1]
        ELSE IF ~PyInRange(Len(tables), table_idx)
        THEN [st EXCEPT !.raised = "IndexError"]         \* tables[table_idx]
        ELSE
          LET t == PyPos(Len(tables), table_idx)
          IN  IF item.row >= Len(tables[t])
              THEN [st EXCEPT !.failed = st.failed + Len(ItemFills(item))]
              ELSE LET res == HwpxFillCells(item.row, ItemFills(item), 1,
                                  [table  |-> tables[t],
                                   filled |-> 0, failed |-> 0])
                   IN  [st EXCEPT
                          !.tables[t] = res.table,
                          !.filled = st.filled + res.filled,
                          !.failed = st.failed + res.failed]

\* str(item.get("value", ""))
ItemValue(item) == IF HasKey(item, "value") THEN item.value ELSE ""

InsertAt(seq, pos, x) ==
    SubSeq(seq, 1, pos) \o <<x>> \o SubSeq(seq, pos + 1, Len(seq))

\* smart_filler._execute_paragraph_fill(doc, item)
DocxExecuteParagraphFill(st, item) ==
    LET paras == st.paragraphs
        n     == Len(paras)
        value == StripMd(ItemValue(item))
    IN  IF ItemAction(item) = "replace"
        THEN IF HasKey(item, "paragraph_idx") /\ item.paragraph_idx < n
             THEN IF ~PyInRange(n, item.paragraph_idx)
                  THEN [st EXCEPT !.raised = "IndexError"]
                  ELSE [st EXCEPT
                          !.paragraphs[PyPos(n, item.paragraph_idx)].text = value]
             ELSE st
        ELSE IF ItemAction(item) = "insert"
        THEN IF HasKey(item, "after_paragraph_idx")
                /\ item.after_paragraph_idx < n
             THEN IF ~PyInRange(n, item.after_paragraph_idx)
                  THEN [st EXCEPT !.raised = "IndexError"]
                  ELSE [st EXCEPT
                          !.paragraphs =
                              InsertAt(paras, PyPos(n, item.after_paragraph_idx),
                                       [text |-> value, tables |-> <<>>])]
             ELSE st
        ELSE st

\* doc.replace_text_in_runs(old, new) on the paragraphs of the model: a
\* paragraph whose text is `old` shows `new`.
ReplaceTextInRuns(paras, old, new) ==
    [i \in 1..Len(paras) |->
        IF Strip(paras[i].text) = old
        THEN [paras[i] EXCEPT !.text = new]
        ELSE paras[i]]

\* hwpx_filler._execute_paragraph_fill(doc, item)
HwpxExecuteParagraphFill(st, item) ==
    LET paras == st.paragraphs
        value == StripMd(ItemValue(item))
        non_table_paras == SelectSeq(paras, LAMBDA para : para.tables = <<>>)
        n     == Len(non_table_paras)
    IN  IF ItemAction(item) = "replace"
        THEN IF HasKey(item, "paragraph_idx") /\ item.paragraph_idx < n
             THEN IF ~PyInRange(n, item.paragraph_idx)
                  THEN [st EXCEPT !.raised = "IndexError"]
                  ELSE LET old_text ==
                             non_table_paras[PyPos(n, item.paragraph_idx)].text
                       IN  IF Strip(old_text) # ""
                           THEN [st EXCEPT !.paragraphs =
                                   ReplaceTextInRuns(paras, Strip(old_text), value)]
                           ELSE st
             ELSE st
        ELSE IF ItemAction(item) = "insert"
        THEN [st EXCEPT !.paragraphs =
                 Append(paras, [text |-> value, tables |-> <<>>])]
        ELSE st

\* One pass of the loop `for item in fills` of execute_fill_plan /
\* execute_hwpx_fill_plan.
ExecuteItem(v, st, item) ==
    LET target == IF HasKey(item, "target") THEN item.target ELSE ""
    IN  IF target = "table"
        THEN IF v = "docx" THEN DocxExecuteTableFill(st, item)
                           ELSE HwpxExecuteTableFill(st, item)
        ELSE IF target = "paragraph"
        THEN LET st1 == IF v = "docx" THEN DocxExecuteParagraphFill(st, item)
                                      ELSE HwpxExecuteParagraphFill(st, item)
             IN  IF st1.raised # "" THEN st1
                 ELSE [st1 EXCEPT !.filled = st1.filled + 1]
        ELSE st

RECURSIVE ExecuteFrom(_, _, _, _)
ExecuteFrom(v, fills, i, st) ==
    IF i > Len(fills) \/ st.raised # "" THEN st
    ELSE ExecuteFrom(v, fills, i + 1, ExecuteItem(v, st, fills[i]))

\* The tables of an HWPX document put back into their hosting paragraphs.
RECURSIVE HostTables(_, _)
HostTables(paras, tables) ==
    IF paras = <<>> THEN <<>>
    ELSE LET k == Len(Head(paras).tables)
         IN  <<[Head(paras) EXCEPT !.tables = SubSeq(tables, 1, k)]>>
             \o HostTables(Tail(paras), SubSeq(tables, k + 1, Len(tables)))

\* execute_fill_plan(doc_path, plan, output_path) /
\* execute_hwpx_fill_plan(doc_path, plan, output_path) on the opened
\* document: [doc, filled, failed, raised]; the document is saved iff
\* raised = "".
ExecuteFillPlan(v, doc, p) ==
    LET st == ExecuteFrom(v, p.fill_plan, 1,
                  [tables     |-> DocTables(v, doc),
                   paragraphs |-> doc.paragraphs,
                   filled |-> 0, failed |-> 0, raised |-> ""])
    IN  [doc    |-> IF v = "docx"
                    THEN [paragraphs |-> st.paragraphs, tables |-> st.tables]
                    ELSE [paragraphs |-> HostTables(st.paragraphs, st.tables),
                          tables     |-> <<>>],
         filled |-> st.filled,
         failed |-> st.failed,
         raised |-> st.raised]

---------------------------------------------------------------------------
(* Placeholder fast path: docx_renderer.fill_docx_template *)

\* A text is a sequence of characters; a paragraph is the sequence of the
\* texts of its runs.

\* para.text: the texts of the runs joined.
ParaText(runs) == Flatten(runs)

\* str.lower() on the characters of the model.
Lower(c) == CASE c = "N" -> "n" [] c = "F" -> "f" [] OTHER -> c

LowerText(t) == [k \in 1..Len(t) |-> Lower(t[k])]

\* str.strip() of a text.
RECURSIVE StripText(_)
StripText(t) ==
    IF t = <<>> THEN t
    ELSE IF Head(t) = " " THEN StripText(Tail(t))
    ELSE IF t[Len(t)] = " " THEN StripText(SubSeq(t, 1, Len(t) - 1))
    ELSE t

\* _md_to_plain on the values of the model: the emphasis markers around a
\* word are removed, the result is stripped.
MdToPlain(md) == StripText(SelectSeq(md, LAMBDA c : c # "*"))

\* Where `sub` occurs in `text` at position k.
OccursAt(text, sub, k) ==
    /\ k + Len(sub) - 1 <= Len(text)
    /\ SubSeq(text, k, k + Len(sub) - 1) = sub

\* `sub in text`
Contains(text, sub) == \E k \in 1..Len(text) : OccursAt(text, sub, k)

\* text.replace(sub, new): every non-overlapping occurrence, left to right
\* (sub is never empty here).
RECURSIVE ReplaceFrom(_, _, _, _)
ReplaceFrom(text, sub, new, k) ==
    IF k > Len(text) THEN <<>>
    ELSE IF OccursAt(text, sub, k)
         THEN new \o ReplaceFrom(text, sub, new, k + Len(sub))
         ELSE <<text[k]>> \o ReplaceFrom(text, sub, new, k + 1)

StrReplace(text, sub, new) == ReplaceFrom(text, sub, new, 1)

\* One match of the pattern \{\{(.+?)\}\} starting at position k, or
\* [start |-> 0]: "{{", then the shortest non-empty group that is followed
\* by "}}".
MatchAt(text, k) ==
    LET closings == {j \in (k + 3)..(Len(text) - 1) :
                        text[j] = "}" /\ text[j + 1] = "}"}
    IN  IF k + 1 <= Len(text) /\ text[k] = "{" /\ text[k + 1] = "{"
           /\ closings # {}
        THEN LET j == CHOOSE c \in closings : \A d \in closings : c <= d
             IN  [start |-> k, stop |-> j + 1]
        ELSE [start |-> 0, stop |-> 0]

\* pattern.finditer(text): the non-overlapping matches, left to right.
RECURSIVE FindIterFrom(_, _)
FindIterFrom(text, k) ==
    IF k > Len(text) THEN <<>>
    ELSE LET m == MatchAt(text, k)
         IN  IF m.start # 0
             THEN <<m>> \o FindIterFrom(text, m.stop + 1)
             ELSE FindIterFrom(text, k + 1)

FindIter(text) == FindIterFrom(text, 1)

\* match.group(0) and match.group(1).strip().lower()
Group0(text, m) == SubSeq(text, m.start, m.stop)

MatchKey(text, m) ==
    LowerText(StripText(SubSeq(text, m.start + 2, m.stop - 2)))

\* The first entry of the replacement map whose key, lowered, is `key`
\* (0 if there is none): `for rkey, rval in replacements.items()`.
LookupKey(replacements, key) ==
    LET hits == {n \in 1..Len(replacements) :
                    LowerText(replacements[n].key) = key}
    IN  IF hits = {} THEN 0
        ELSE CHOOSE n \in hits : \A h \in hits : n <= h

\* _rebuild_paragraph_with_replacement(para, placeholder, replacement)
RebuildParagraphWithReplacement(runs, placeholder, replacement) ==
    LET full_text == Flatten(runs)
    IN  IF ~Contains(full_text, placeholder) \/ runs = <<>> THEN runs
        ELSE [r \in 1..Len(runs) |->
                 IF r = 1 THEN StrReplace(full_text, placeholder, replacement)
                 ELSE <<>>]

\* The run-level pass of _replace_in_paragraph from run r on: the first
\* match inside one run whose key is in the map, [run |-> 0] if none.
RECURSIVE FirstRunHit(_, _, _)
FirstRunHit(runs, replacements, r) ==
    IF r > Len(runs) THEN [run |-> 0]
    ELSE LET hits == SelectSeq(FindIter(runs[r]),
                        LAMBDA m : LookupKey(replacements,
                                             MatchKey(runs[r], m)) # 0)
         IN  IF hits # <<>> THEN [run |-> r, m |-> hits[1]]
             ELSE FirstRunHit(runs, replacements, r + 1)

\* _replace_in_paragraph(para, replacements): the runs afterwards.
ReplaceInParagraph(runs, replacements) ==
    LET full_text == ParaText(runs)
        matches   == FindIter(full_text)
        hit       == FirstRunHit(runs, replacements, 1)
        known     == SelectSeq(matches,
                        LAMBDA m : LookupKey(replacements,
                                             MatchKey(full_text, m)) # 0)
    IN  IF matches = <<>> THEN runs
        ELSE IF hit.run # 0
        THEN LET text == runs[hit.run]
                 rval == replacements[LookupKey(replacements,
                                         MatchKey(text, hit.m))].val
             IN  [runs EXCEPT ![hit.run] =
                     StrReplace(text, Group0(text, hit.m), MdToPlain(rval))]
        ELSE IF known # <<>>
        THEN LET m    == known[1]
                 rval == replacements[LookupKey(replacements,
                                         MatchKey(full_text, m))].val
             IN  RebuildParagraphWithReplacement(runs, Group0(full_text, m),
                                                 MdToPlain(rval))
        ELSE runs

\* The loop over row.cells of the table pass: entry q of the grid list is
\* visited, and the paragraph of its cell (shared by the entries of one
\* merged cell) is replaced in.
RECURSIVE ReplaceInCells(_, _, _)
ReplaceInCells(cells, replacements, q) ==
    IF q > Len(cells) THEN cells
    ELSE LET runs == ReplaceInParagraph(cells[q].runs, replacements)
         IN  ReplaceInCells(
                 [c \in 1..Len(cells) |->
                     IF cells[c].tc = cells[q].tc
                     THEN [cells[c] EXCEPT !.runs = runs]
                     ELSE cells[c]],
                 replacements, q + 1)

\* The three passes of fill_docx_template over the opened document: body
\* paragraphs, table cells, header and footer paragraphs.
FillPlaceholders(doc, replacements) ==
    [paragraphs |-> [k \in 1..Len(doc.paragraphs) |->
                        ReplaceInParagraph(doc.paragraphs[k], replacements)],
     cells      |-> ReplaceInCells(doc.cells, replacements, 1),
     headers    |-> [k \in 1..Len(doc.headers) |->
                        ReplaceInParagraph(doc.headers[k], replacements)]]

---------------------------------------------------------------------------
(* The placeholder mode of HWPX templates *)

\* "{{" + key + "}}"
Placeholder(key) == <<"{", "{">> \o key \o <<"}", "}">>

\* hwpx_filler._md_to_plain on the values of the model: the emphasis
\* markers around a word are removed, the result is stripped.
HwpxMdToPlain(md) == StripText(SelectSeq(md, LAMBDA c : c # "*"))

\* The occurrences of `sub` in `text` that text.replace(sub, ...) replaces.
RECURSIVE CountFrom(_, _, _)
CountFrom(text, sub, k) ==
    IF k > Len(text) THEN 0
    ELSE IF OccursAt(text, sub, k)
         THEN 1 + CountFrom(text, sub, k + Len(sub))
         ELSE CountFrom(text, sub, k + 1)

RECURSIVE CountInRuns(_, _)
CountInRuns(runs, sub) ==
    IF runs = <<>> THEN 0
    ELSE CountFrom(Head(runs), sub, 1) + CountInRuns(Tail(runs), sub)

\* doc.replace_text_in_runs(search, replacement) on body paragraphs given
\* as the texts of their runs: every occurrence inside one run is replaced,
\* and the number of replacements is returned.
HwpxReplaceTextInRuns(paras, search, replacement) ==
    [paragraphs |->
         [k \in 1..Len(paras) |->
             [r \in 1..Len(paras[k]) |->
                 StrReplace(paras[k][r], search, replacement)]],
     count      |-> CountInRuns(Flatten(paras), search)]

\* The loop `for key, value in replacements.items()` of fill_hwpx_template
\* from entry n on: the placeholder as written, and in lower case when
\* nothing was replaced.
RECURSIVE FillHwpxFrom(_, _, _)
FillHwpxFrom(paras, replacements, n) ==
    IF n > Len(replacements) THEN paras
    ELSE LET key         == replacements[n].key
             clean       == HwpxMdToPlain(replacements[n].val)
             first       == HwpxReplaceTextInRuns(paras, Placeholder(key),
                                                  clean)
             lower       == HwpxReplaceTextInRuns(
                                first.paragraphs,
                                Placeholder(LowerText(key)), clean)
             after       == IF first.count = 0 THEN lower ELSE first
         IN  FillHwpxFrom(after.paragraphs, replacements, n + 1)

---------------------------------------------------------------------------
(* The table mode of DOCX templates: table_filler.py *)

\* _find_data_start_row(table): the index of the first row whose grid cells
\* are all empty, else min(2, len(table.rows)).
FindDataStartRow(table) ==
    LET empty == {i \in 0..(Len(table) - 1) :
                     \A q \in 1..Len(table[i + 1]) :
                         Strip(table[i + 1][q].text) = ""}
    IN  IF empty # {} THEN CHOOSE i \in empty : \A j \in empty : i <= j
        ELSE IF 2 < Len(table) THEN 2 ELSE Len(table)

\* _get_unique_cells(row): the cells of the row, each given as the grid
\* position of its first entry in row.cells.
GetUniqueCells(cells) == UniqueCellsFrom(cells, 1, {}, 0)

\* _detect_column_layout(table, data_start_row)
DetectColumnLayout(table, data_start_row) ==
    LET header_row == table[data_start_row]
        texts      == [q \in 1..Len(header_row) |->
                          Strip(header_row[q].text)]
    IN  IF data_start_row >= 2 /\ Len(texts) >= 7
           /\ texts[1] = "nyeon" /\ texts[4] = "~"
        THEN "ymd_sep"
        ELSE IF data_start_row < Len(table)
                /\ Len(GetUniqueCells(table[data_start_row + 1])) = 1
        THEN "single"
        ELSE "period_desc"

\* entry.get(key, "")
EntryGet(entry, key) == IF key \in DOMAIN entry THEN entry[key] ELSE ""

\* _format_period(entry)
FormatPeriod(entry) ==
    LET start    == EntryGet(entry, "start_year") \o "."
                       \o EntryGet(entry, "start_month") \o "."
                       \o EntryGet(entry, "start_day")
        end_year == EntryGet(entry, "end_year")
        end      == IF end_year = "hyeonjae" THEN "hyeonjae"
                    ELSE end_year \o "." \o EntryGet(entry, "end_month")
                            \o "." \o EntryGet(entry, "end_day")
    IN  start \o " ~ " \o end

\* _set_cell_text on cells[0], cells[1], ... in turn (positions p.. of the
\* grid list), a merged cell showing the text set last.
RECURSIVE SetCellsFrom(_, _, _)
SetCellsFrom(cells, texts, p) ==
    IF p > Len(texts) THEN cells
    ELSE SetCellsFrom(SetCellText(cells, p, texts[p]), texts, p + 1)

\* _fill_row(row, entry, col_layout): [cells, raised].
FillRow(cells, entry, col_layout) ==
    LET unique   == GetUniqueCells(cells)
        end_year == EntryGet(entry, "end_year")
        current  == end_year = "hyeonjae"
        text     == FormatPeriod(entry) \o "\n\n"
                       \o EntryGet(entry, "description")
    IN  IF col_layout = "ymd_sep" /\ Len(cells) >= 8
        THEN [cells  |-> SetCellsFrom(cells,
                            <<EntryGet(entry, "start_year"),
                              EntryGet(entry, "start_month"),
                              EntryGet(entry, "start_day"),
                              "~",
                              IF current THEN "hyeonjae" ELSE end_year,
                              IF current THEN ""
                              ELSE EntryGet(entry, "end_month"),
                              IF current THEN ""
                              ELSE EntryGet(entry, "end_day"),
                              EntryGet(entry, "description")>>, 1),
              raised |-> ""]
        ELSE IF col_layout = "period_desc"
        THEN IF Len(unique) >= 2
             THEN [cells  |-> SetCellText(
                                 SetCellText(cells, unique[1],
                                             FormatPeriod(entry)),
                                 unique[Len(unique)],
                                 EntryGet(entry, "description")),
                   raised |-> ""]
             ELSE IF Len(unique) = 1
             THEN [cells |-> SetCellText(cells, unique[1], text),
                   raised |-> ""]
             ELSE [cells |-> cells, raised |-> ""]
        ELSE IF unique = <<>>
             THEN [cells |-> cells, raised |-> "IndexError"]
             ELSE [cells |-> SetCellText(cells, unique[1], text),
                   raised |-> ""]

\* The loop `for i, entry in enumerate(entries)` of fill_table_template
\* from entry i on: [table, raised].  A row is added for every entry past
\* the rows available at the start, so table.rows[data_start_row + i]
\* exists whenever the row could be added.
RECURSIVE FillEntriesFrom(_, _, _, _, _, _)
FillEntriesFrom(table, entries, i, data_start_row, available_rows, col_layout) ==
    IF i >= Len(entries) THEN [table |-> table, raised |-> ""]
    ELSE IF i >= available_rows /\ table = <<>>
    THEN [table |-> table, raised |-> "IndexError"]
    ELSE LET grown   == IF i >= available_rows THEN AddTableRow(table)
                        ELSE table
             row_idx == data_start_row + i
             r       == FillRow(grown[row_idx + 1], entries[i + 1],
                                col_layout)
         IN  IF r.raised # ""
             THEN [table |-> grown, raised |-> r.raised]
             ELSE FillEntriesFrom([grown EXCEPT ![row_idx + 1] = r.cells],
                                  entries, i + 1, data_start_row,
                                  available_rows, col_layout)

\* fill_table_template after `doc = Document(template_path)`, given the
\* entries: [doc, raised].
FillTable(doc, entries) ==
    LET table          == doc.tables[1]
        data_start_row == FindDataStartRow(table)
        col_layout     == DetectColumnLayout(table, data_start_row)
        r              == FillEntriesFrom(table, entries, 0, data_start_row,
                                          Len(table) - data_start_row,
                                          col_layout)
    IN  [doc    |-> [doc EXCEPT !.tables[1] = r.table],
         raised |-> r.raised]

---------------------------------------------------------------------------
(* Templates and plans the runs are checked on *)

Variants == {"docx", "hwpx"}

Cell(tc, text) == [tc |-> tc, text |-> text]

\* Rows of a three-column grid.
LabelRow   == <<Cell(1, "gigan"), Cell(2, "hoesa"), Cell(3, "jigwi")>>

BlankRow   == <<Cell(1, ""), Cell(2, ""), Cell(3, "")>>

\* grid columns 0 and 1 merged into one cell
MergedBlankRow == <<Cell(1, ""), Cell(1, ""), Cell(2, "")>>

MergedNameRow  == <<Cell(1, "seongmyeong"), Cell(1, "seongmyeong"), Cell(2, " ")>>

PartialRow == <<Cell(1, "ACME"), Cell(2, ""), Cell(3, "")>>

RowSet == {LabelRow, BlankRow, MergedBlankRow, MergedNameRow, PartialRow}

RECURSIVE SeqsUpTo(_, _)
SeqsUpTo(S, n) ==
    IF n = 0 THEN {<<>>}
    ELSE LET shorter == SeqsUpTo(S, n - 1)
         IN  shorter \cup {Append(q, x) : q \in shorter, x \in S}

TableSet == SeqsUpTo(RowSet, MaxRows) \ {<<>>}

\* The table lists of the templates: no table, any one table, and the
\* scenario table followed by a one-row table.
TableLists ==
    {<<>>} \cup {<<t>> : t \in TableSet}
           \cup {<<<<LabelRow, BlankRow>>, <<r>>>> : r \in RowSet}

BodyTexts == <<"", "Intro">>

\* A template file of variant v with the given tables.
MakeDoc(v, tables) ==
    LET body == [i \in 1..Len(BodyTexts) |->
                    [text |-> BodyTexts[i], tables |-> <<>>]]
    IN  IF v = "docx"
        THEN [paragraphs |-> body, tables |-> tables]
        ELSE [paragraphs |-> body \o [t \in 1..Len(tables) |->
                                [text |-> "", tables |-> <<tables[t]>>]],
              tables     |-> <<>>]

TableItem(ti, r, fs) ==
    [target |-> "table", table_idx |-> ti, row |-> r, fills |-> fs]

Fill(c, v) == [col |-> c, value |-> v]

TableIdxValues == -2..2

\* Rows below, inside and just beyond every table, and the rows around the
\* ceiling rows + MAX_ADD_ROWS.
RowValues == (-1..MaxRows) \cup (MAX_ADD_ROWS..(MAX_ADD_ROWS + MaxRows))

FillLists ==
    {<<>>, <<Fill(0, "ACME")>>, <<Fill(1, "**Lead**")>>, <<Fill(2, "ACME")>>,
     <<Fill(3, "ACME")>>, <<Fill(-1, "ACME")>>, <<Fill(0, "")>>,
     <<Fill(0, "ACME"), Fill(0, "Lead")>>, <<Fill(0, "ACME"), Fill(1, "Lead")>>}

ItemSet ==
    {TableItem(ti, r, fs) : ti \in TableIdxValues, r \in RowValues,
                            fs \in FillLists}

Plan(items) == [analysis |-> "", fill_plan |-> items]

\* Plans of a single table item.
ItemPlans == {Plan(<<it>>) : it \in ItemSet}

\* Plans the repair loop is driven with: the empty plan, a fill of the first
\* data row, a fill of the header row, an appended row, a row beyond the
\* ceiling, a table that does not exist, and negative table indices.
LoopPlans ==
    {Plan(<<>>),
     Plan(<<TableItem(0, 1, <<Fill(0, "ACME")>>)>>),
     Plan(<<TableItem(0, 0, <<Fill(0, "ACME")>>)>>),
     Plan(<<TableItem(0, MaxRows, <<Fill(0, "ACME"), Fill(0, "Lead")>>)>>),
     Plan(<<TableItem(0, MaxRows + MAX_ADD_ROWS, <<Fill(0, "ACME")>>)>>),
     Plan(<<TableItem(2, 1, <<Fill(0, "ACME")>>)>>),
     Plan(<<TableItem(-1, 0, <<Fill(0, "ACME")>>)>>),
     Plan(<<TableItem(-3, 0, <<Fill(0, "ACME")>>)>>)}

\* Plans of up to MaxItems items that address few cells, so that fills
\* collide: within one item and across items.
PairItems ==
    {TableItem(ti, r, fs) : ti \in {0, -1}, r \in {0, 1},
        fs \in {<<Fill(0, "ACME")>>, <<Fill(0, "ACME"), Fill(0, "Lead")>>,
                <<Fill(0, "ACME"), Fill(3, "Lead")>>}}

PairPlans == {Plan(items) : items \in SeqsUpTo(PairItems, MaxItems) \ {<<>>}}

\* Items that make a table grow: rows up to MAX_ADD_ROWS beyond the rows of
\* the template, and up to MAX_ADD_ROWS beyond those, once per item.
GrowRows ==
    {1} \cup {a * MAX_ADD_ROWS + b : a \in 1..MaxItems, b \in 0..MaxRows}

GrowItems == {TableItem(0, r, <<Fill(0, "ACME")>>) : r \in GrowRows}

GrowPlans == {Plan(items) : items \in SeqsUpTo(GrowItems, MaxItems) \ {<<>>}}

\* Plans of the concurrent operations: a fill of the data row, a fill of
\* the header row (an error), and a fill of a row to be appended.
ConcurrentPlans ==
    {Plan(<<TableItem(0, 1, <<Fill(0, "ACME")>>)>>),
     Plan(<<TableItem(0, 0, <<Fill(0, "ACME")>>)>>),
     Plan(<<TableItem(0, MaxRows, <<Fill(1, "**Lead**")>>)>>)}

ConcurrentTableLists == {<<<<LabelRow, BlankRow>>>>}

\* A key of an item that may be absent: S is {} (absent) or {v}.
Opt(key, S) == [k \in {key : v \in S} |-> CHOOSE v \in S : TRUE]

ParagraphItem(actions, idxs, afters) ==
    [target |-> "paragraph", value |-> "**Lead**"]
        @@ Opt("action", actions) @@ Opt("paragraph_idx", idxs)
        @@ Opt("after_paragraph_idx", afters)

OptOf(S) == {{}} \cup {{v} : v \in S}

\* Indices below, inside and beyond the paragraphs of the templates.
ParagraphIdxValues == (-Len(BodyTexts) - 1)..(Len(BodyTexts) + 1)

ParagraphItemSet ==
    {ParagraphItem(a, i, j) :
        a \in OptOf({"replace", "insert", "remove"}),
        i \in OptOf(ParagraphIdxValues), j \in OptOf(ParagraphIdxValues)}

\* Plans of a single paragraph item.
ParagraphPlans == {Plan(<<it>>) : it \in ParagraphItemSet}

\* Templates of the paragraph plans: the body alone, and the body with the
\* scenario table.
ParagraphTableLists == {<<>>, <<<<LabelRow, BlankRow>>>>}

\* A template whose tables come before the body paragraphs.  In HWPX the
\* hosting paragraphs of the tables are then the first entries of
\* doc.paragraphs; in DOCX doc.paragraphs never holds a table.
LeadingTablesDoc(v, tables) ==
    LET body == [i \in 1..Len(BodyTexts) |->
                    [text |-> BodyTexts[i], tables |-> <<>>]]
    IN  IF v = "docx"
        THEN [paragraphs |-> body, tables |-> tables]
        ELSE [paragraphs |-> [t \in 1..Len(tables) |->
                                [text |-> "", tables |-> <<tables[t]>>]] \o body,
              tables     |-> <<>>]

\* Templates of the paragraph-index convention: the tables after the body
\* and the tables before it.
ConventionDocs(v) ==
    {MakeDoc(v, tl) : tl \in ParagraphTableLists}
        \cup {LeadingTablesDoc(v, tl) : tl \in ParagraphTableLists}

\* Paragraph items on the paragraphs of the templates: an insert after
\* paragraph a and a replace of paragraph b, with different values.
InsertItem(a) ==
    [target |-> "paragraph", action |-> "insert", after_paragraph_idx |-> a,
     value |-> "ACME"]

ReplaceItem(b) ==
    [target |-> "paragraph", action |-> "replace", paragraph_idx |-> b,
     value |-> "**Lead**"]

BodyIdxValues == 0..(Len(BodyTexts) - 1)

InsertItems ==
    {InsertItem(a) : a \in BodyIdxValues} \cup
    {ReplaceItem(b) : b \in BodyIdxValues}

\* Plans of up to MaxItems paragraph items.
InsertPlans ==
    {Plan(items) : items \in SeqsUpTo(InsertItems, MaxItems) \ {<<>>}}

\* Run texts of the placeholder templates: a whole marker, the pieces of a
\* marker split across runs, a marker with padding and upper case, a marker
\* whose key is not in the map, and one marker twice.
MarkerN == <<"{", "{", "n", "}", "}">>

RunTexts ==
    {MarkerN, <<"{", "{">>, <<"n">>, <<"}", "}">>,
     <<"{", "{", " ", "F", " ", "}", "}">>,
     <<"x", "{", "{", "z", "}", "}">>,
     MarkerN \o <<" ">> \o MarkerN}

PlaceholderParagraphs == SeqsUpTo(RunTexts, MaxRuns)

\* Templates of the fast path: one body paragraph; or one paragraph in a
\* table cell that spans two grid columns next to a plain cell; or one
\* header paragraph.
PlaceholderDocs ==
    {[paragraphs |-> <<para>>, cells |-> <<>>, headers |-> <<>>] :
         para \in PlaceholderParagraphs}
    \cup {[paragraphs |-> <<>>,
           cells |-> <<[tc |-> 1, runs |-> para], [tc |-> 1, runs |-> para],
                       [tc |-> 2, runs |-> <<<<"x">>>>]>>,
           headers |-> <<>>] : para \in SeqsUpTo(RunTexts, 1)}
    \cup {[paragraphs |-> <<>>, cells |-> <<>>, headers |-> <<para>>] :
             para \in SeqsUpTo(RunTexts, 1)}

\* _build_replacement_map(resume, extra_vars): a section id and an extra
\* variable written in upper case, in dict order.
Replacements ==
    <<[key |-> <<"n">>, val |-> <<"K">>],
      [key |-> <<"F">>, val |-> <<"*", "*", "C", "*", "*">>]>>

\* Run texts of the HWPX placeholder templates: those of the DOCX ones and
\* the second key as written in the map and in lower case.
HwpxRunTexts ==
    RunTexts \cup {<<"{", "{", "F", "}", "}">>, <<"{", "{", "f", "}", "}">>}

\* HWPX templates of the placeholder mode: one body paragraph of up to
\* MaxRuns runs.
HwpxPlaceholderDocs ==
    {[paragraphs |-> <<para>>, cells |-> <<>>, headers |-> <<>>] :
         para \in SeqsUpTo(HwpxRunTexts, MaxRuns)}

\* hwpx_filler._build_replacement_map(resume, extra_vars): the same map.
HwpxReplacements == Replacements

\* Rows of the table templates: the period header over eight or seven grid
\* columns with its year-month-day row, a header of two columns, a row
\* that is one merged cell, and a row without cells.
WideRow(texts, n) == [q \in 1..n |-> Cell(q, texts[q])]

YmdTexts == <<"nyeon", "wol", "il", "~", "nyeon", "wol", "il", "">>

YmdHeaderRow(n) == [q \in 1..n |-> IF q < 8 THEN Cell(1, "gigan")
                                   ELSE Cell(2, "project")]

PeriodHeaderRow == <<Cell(1, "gigan"), Cell(2, "project")>>

MergedRow(text) == <<Cell(1, text), Cell(1, text)>>

\* The first tables of the templates handed to fill_table_template.
TableTemplates ==
    {<<YmdHeaderRow(n), WideRow(YmdTexts, n)>>
         \o [k \in 1..rows |-> WideRow([q \in 1..8 |-> ""], n)] :
         n \in {7, 8}, rows \in 0..MaxRows}
    \cup {<<PeriodHeaderRow>>
             \o [k \in 1..rows |-> <<Cell(1, ""), Cell(2, "")>>] :
             rows \in 0..MaxRows}
    \cup {<<PeriodHeaderRow, <<Cell(1, "2020"), Cell(2, "ACME")>>,
            <<Cell(1, "2021"), Cell(2, "Lead")>>>>,
          <<MergedRow("")>>,
          <<MergedRow("gigan"), MergedRow("gigan")>>,
          <<MergedRow("gigan"), MergedRow(" "), PeriodHeaderRow>>,
          <<YmdHeaderRow(7), WideRow(YmdTexts, 7), <<>>>>,
          <<>>}

\* DOCX templates of the table mode: one table, a second table behind it,
\* or no table.
TableDocs ==
    {[paragraphs |-> <<>>, tables |-> <<t>>] : t \in TableTemplates}
    \cup {[paragraphs |-> <<>>, tables |-> <<t, <<PeriodHeaderRow>>>>] :
             t \in {<<MergedRow("")>>}}
    \cup {[paragraphs |-> <<>>, tables |-> <<>>]}

\* Entries as _extract_entries_simple and the LLM return them: a closed
\* period, a current one, and an entry that has a description only.
TableEntries ==
    {[start_year |-> "2022", start_month |-> "03", start_day |-> "01",
      end_year |-> "2025", end_month |-> "02", end_day |-> "01",
      description |-> "ACME"],
     [start_year |-> "2025", start_month |-> "03", start_day |-> "01",
      end_year |-> "hyeonjae", end_month |-> "", end_day |-> "hyeonjae",
      description |-> "Lead"],
     [description |-> "Intro"]}

EntryLists == SeqsUpTo(TableEntries, MaxEntries)

\* A row whose cells are all filled with texts that are no labels.
FullRow == <<Cell(1, "ACME"), Cell(2, "Lead"), Cell(3, "Intro")>>

\* Tables the extractor is checked on: up to MaxRows + 2 rows of one width
\* (three grid columns, or no cell at all), so that rows from index 2 on
\* have a following row.
ExtractTableSet ==
    {t \in SeqsUpTo(RowSet \cup {FullRow, <<>>}, MaxRows + 2) \ {<<>>} :
        \A r \in 1..Len(t) : Len(t[r]) = Len(t[1])}

ExtractTableLists == {<<t>> : t \in ExtractTableSet}

\* A row of a grid of w columns with k non-empty cells, l of them labels:
\* the labels first, then the plain texts, then the empty cells.  With
\* `merged` the first two grid columns are one cell, so the row has w - 1
\* cells.
RuleRow(w, merged, k, l) ==
    [q \in 1..w |->
        LET u == IF merged THEN Max(q - 1, 1) ELSE q
        IN  Cell(u, IF u <= l THEN (IF u % 2 = 1 THEN "gigan" ELSE "hoesa")
                    ELSE IF u <= k THEN "ACME" ELSE "")]

RuleRows(w) ==
    {RuleRow(w, FALSE, k, l) : k \in 0..w, l \in 0..w} \cup
    {RuleRow(w, TRUE, k, l) : k \in 0..(w - 1), l \in 0..(w - 1)}

\* Tables the header rules are checked on: a row at index 0 and a row at
\* index 2, each as the last row and with any row after it.
RuleTables(w) ==
    LET blank == RuleRow(w, FALSE, 0, 0)
    IN  {<<r>> : r \in RuleRows(w)}
        \cup {<<r, x>> : r \in RuleRows(w), x \in RuleRows(w)}
        \cup {<<blank, blank, r>> : r \in RuleRows(w)}
        \cup {<<blank, blank, r, x>> : r \in RuleRows(w), x \in RuleRows(w)}

RuleTableLists == UNION {{<<t>> : t \in RuleTables(w)} : w \in 1..MaxCols}

PairTableLists ==
    {<<<<LabelRow, BlankRow>>>>, <<<<LabelRow>>>>, <<<<BlankRow, MergedBlankRow>>>>,
     <<<<LabelRow, BlankRow>>, <<MergedNameRow>>>>}

---------------------------------------------------------------------------
(* The fill operation: smart_fill_docx / smart_fill_hwpx *)

Unbound == [bound |-> FALSE]

Bound(list) == [bound |-> TRUE, list |-> list]

NotOpened == [opened |-> FALSE]

NoFile == [saved |-> FALSE]

\* No call of a collaborator has been made yet.
NoCall == [called |-> FALSE]

\* history before the first call: the plan last received from a
\* plan-generation call, and the last call of validate_fill_plan, of
\* _retry_with_errors, of the residual-error log and of execute_fill_plan.
NoHistory ==
    [received |-> NoCall, validate |-> NoCall, revise |-> NoCall,
     residual |-> NoCall, execute |-> NoCall]

\* There is no second operation.
NoPeer == [present |-> FALSE]

\* The caller's paths: the template's own path and another one.
TemplatePath == "template"

OtherPath == "filled"

\* The output path of a second fill operation.
PeerPath == "filled2"

\* max_attempts: int = 2
DefaultMaxAttempts == 2

InitOf(tableLists, attempts, paths, peers) ==
    /\ variant \in Variants
    /\ maxAttempts \in attempts
    /\ \E tl \in tableLists : template = MakeDoc(variant, tl)
    /\ outputPath \in paths
    /\ structure = [paragraphs |-> <<>>, tables |-> <<>>]
    /\ plan = Plan(<<>>)
    /\ errors = Unbound
    /\ attempt = 0
    /\ pc = "start"
    /\ live = NotOpened
    /\ output = NoFile
    /\ counts = [filled |-> 0, failed |-> 0]
    /\ raised = ""
    /\ calls = [propose |-> 0, validate |-> 0, revise |-> 0, execute |-> 0]
    /\ history = NoHistory
    /\ peer \in peers

\* A single fill operation.
InitWith(tableLists, attempts, paths) ==
    InitOf(tableLists, attempts, paths, {NoPeer})

\* structure = extract_docx_structure(template_path)
Extract ==
    /\ pc = "start"
    /\ structure' = ExtractStructure(variant, template)
    /\ pc' = "propose"
    /\ UNCHANGED <<peer, history>>
    /\ UNCHANGED <<variant, maxAttempts, outputPath, template, plan, errors,
                   attempt, live, output, counts, raised, calls>>

\* plan = await analyze_and_plan(...): the generator returns any plan of
\* plans.  smart_fill_hwpx then binds errors = []; smart_fill_docx does not.
ProposePlan(plans) ==
    /\ pc = "propose"
    /\ plan' \in plans
    /\ errors' = IF variant = "hwpx" THEN Bound(<<>>) ELSE errors
    /\ calls' = [calls EXCEPT !.propose = @ + 1]
    /\ history' = [history EXCEPT
                      !.received = [called |-> TRUE, plan |-> plan']]
    /\ pc' = "loop"
    /\ UNCHANGED peer
    /\ UNCHANGED <<variant, maxAttempts, outputPath, template, structure,
                   attempt, live, output, counts, raised>>

\* Validate with the retry guard `attempt < max_attempts` in place of
\* `attempt < max_attempts - 1`: the last pass also asks for a revision.
ValidateRetryOnLastPass ==
    /\ pc = "loop"
    /\ attempt < maxAttempts
    /\ LET r == ValidateFillPlan(structure, plan)
       IN  /\ calls' = [calls EXCEPT !.validate = @ + 1]
           /\ history' = [history EXCEPT
                             !.validate = [called |-> TRUE, plan |-> plan,
                                           errors |-> r.errors,
                                           raised |-> r.raised]]
           /\ IF r.raised # ""
              THEN /\ raised' = r.raised
                   /\ pc' = "raised"
                   /\ UNCHANGED <<errors, attempt>>
              ELSE /\ errors' = Bound(r.errors)
                   /\ raised' = raised
                   /\ IF r.errors = <<>>
                      THEN pc' = "after_loop" /\ attempt' = attempt
                      ELSE pc' = "revise" /\ attempt' = attempt
    /\ UNCHANGED peer
    /\ UNCHANGED <<variant, maxAttempts, outputPath, template, structure,
                   plan, live, output, counts>>

\* Validate without `if not errors: break`: a plan without errors is sent
\* to revision as well.
ValidateWithoutBreak ==
    /\ pc = "loop"
    /\ attempt < maxAttempts
    /\ LET r == ValidateFillPlan(structure, plan)
       IN  /\ calls' = [calls EXCEPT !.validate = @ + 1]
           /\ history' = [history EXCEPT
                             !.validate = [called |-> TRUE, plan |-> plan,
                                           errors |-> r.errors,
                                           raised |-> r.raised]]
           /\ IF r.raised # ""
              THEN /\ raised' = r.raised
                   /\ pc' = "raised"
                   /\ UNCHANGED <<errors, attempt>>
              ELSE /\ errors' = Bound(r.errors)
                   /\ raised' = raised
                   /\ IF attempt < maxAttempts - 1
                      THEN pc' = "revise" /\ attempt' = attempt
                      ELSE pc' = "loop" /\ attempt' = attempt + 1
    /\ UNCHANGED peer
    /\ UNCHANGED <<variant, maxAttempts, outputPath, template, structure,
                   plan, live, output, counts>>

\* One pass of `for attempt in range(max_attempts)` up to the retry call.
Validate ==
    /\ pc = "loop"
    /\ attempt < maxAttempts
    /\ LET r == ValidateFillPlan(structure, plan)
       IN  /\ calls' = [calls EXCEPT !.validate = @ + 1]
           /\ history' = [history EXCEPT
                             !.validate = [called |-> TRUE, plan |-> plan,
                                           errors |-> r.errors,
                                           raised |-> r.raised]]
           /\ IF r.raised # ""
              THEN /\ raised' = r.raised
                   /\ pc' = "raised"
                   /\ UNCHANGED <<errors, attempt>>
              ELSE /\ errors' = Bound(r.errors)
                   /\ raised' = raised
                   /\ IF r.errors = <<>>
                      THEN pc' = "after_loop" /\ attempt' = attempt
                      ELSE IF attempt < maxAttempts - 1
                      THEN pc' = "revise" /\ attempt' = attempt
                      ELSE pc' = "loop" /\ attempt' = attempt + 1
    /\ UNCHANGED peer
    /\ UNCHANGED <<variant, maxAttempts, outputPath, template, structure,
                   plan, live, output, counts>>

\* RevisePlan followed by `break`: the revised plan leaves the loop without
\* another pass.
RevisePlanThenBreak(plans) ==
    /\ pc = "revise"
    /\ plan' \in plans
    /\ calls' = [calls EXCEPT !.revise = @ + 1]
    /\ history' = [history EXCEPT
                      !.revise = [called |-> TRUE, structure |-> structure,
                                  plan |-> plan, errors |-> errors],
                      !.received = [called |-> TRUE, plan |-> plan']]
    /\ attempt' = attempt + 1
    /\ pc' = "after_loop"
    /\ UNCHANGED peer
    /\ UNCHANGED <<variant, maxAttempts, outputPath, template, structure,
                   errors, live, output, counts, raised>>

\* plan = await _retry_with_errors(...), then the next pass of the loop.
RevisePlan(plans) ==
    /\ pc = "revise"
    /\ plan' \in plans
    /\ calls' = [calls EXCEPT !.revise = @ + 1]
    /\ history' = [history EXCEPT
                      !.revise = [called |-> TRUE, structure |-> structure,
                                  plan |-> plan, errors |-> errors],
                      !.received = [called |-> TRUE, plan |-> plan']]
    /\ attempt' = attempt + 1
    /\ pc' = "loop"
    /\ UNCHANGED peer
    /\ UNCHANGED <<variant, maxAttempts, outputPath, template, structure,
                   errors, live, output, counts, raised>>

\* range(max_attempts) is exhausted.
LoopExit ==
    /\ pc = "loop"
    /\ attempt >= maxAttempts
    /\ pc' = "after_loop"
    /\ UNCHANGED <<peer, history>>
    /\ UNCHANGED <<variant, maxAttempts, outputPath, template, structure,
                   plan, errors, attempt, live, output, counts, raised, calls>>

\* `if errors:` after the loop: a non-empty list is logged, an empty one is
\* not, and reading an unbound local raises.
CheckResidual ==
    /\ pc = "after_loop"
    /\ IF errors.bound
       THEN /\ pc' = "execute" /\ raised' = raised
            /\ history' = IF errors.list # <<>>
                          THEN [history EXCEPT
                                   !.residual = [called |-> TRUE,
                                                 errors |-> errors.list]]
                          ELSE history
       ELSE /\ pc' = "raised" /\ raised' = "UnboundLocalError"
            /\ history' = history
    /\ UNCHANGED peer
    /\ UNCHANGED <<variant, maxAttempts, outputPath, template, structure,
                   plan, errors, attempt, live, output, counts, calls>>

\* return execute_fill_plan(template_path, plan, output_path): the document
\* is opened from the template path and saved to output_path, which
\* replaces the template file when the two paths are the same.
Execute ==
    /\ pc = "execute"
    /\ LET r == ExecuteFillPlan(variant, template, plan)
       IN  /\ live' = [opened |-> TRUE, doc |-> r.doc]
           /\ calls' = [calls EXCEPT !.execute = @ + 1]
           /\ history' = [history EXCEPT
                             !.execute = [called |-> TRUE, plan |-> plan]]
           /\ counts' = [filled |-> r.filled, failed |-> r.failed]
           /\ IF r.raised # ""
              THEN /\ raised' = r.raised
                   /\ pc' = "raised"
                   /\ output' = output
                   /\ template' = template
              ELSE /\ raised' = raised
                   /\ pc' = "done"
                   /\ output' = [saved |-> TRUE, doc |-> r.doc]
                   /\ template' = IF outputPath = TemplatePath
                                  THEN r.doc ELSE template
    /\ UNCHANGED peer
    /\ UNCHANGED <<variant, maxAttempts, outputPath, structure, plan, errors,
                   attempt>>

\* The repair loop with any max_attempts and the plans of LoopPlans.
Init == InitWith(TableLists, 0..MaxAttemptsBound, {OtherPath})

ProposeLoopPlan == ProposePlan(LoopPlans)

ReviseLoopPlan == RevisePlan(LoopPlans)

Next ==
    \/ Extract
    \/ ProposeLoopPlan
    \/ Validate
    \/ ReviseLoopPlan
    \/ LoopExit
    \/ CheckResidual
    \/ Execute

Spec == Init /\ [][Next]_vars

\* One validation and one execution of every single-item plan
\* (max_attempts = 1).
InitItem == InitWith(TableLists, {1}, {OtherPath})

ProposeItemPlan == ProposePlan(ItemPlans)

NextItem ==
    \/ Extract
    \/ ProposeItemPlan
    \/ Validate
    \/ LoopExit
    \/ CheckResidual
    \/ Execute

SpecItem == InitItem /\ [][NextItem]_vars

\* One validation and one execution of every plan of colliding fills.
InitPair == InitWith(PairTableLists, {1}, {OtherPath})

ProposePairPlan == ProposePlan(PairPlans)

NextPair ==
    \/ Extract
    \/ ProposePairPlan
    \/ Validate
    \/ LoopExit
    \/ CheckResidual
    \/ Execute

SpecPair == InitPair /\ [][NextPair]_vars

\* One validation and one execution of every single-paragraph plan.
InitParagraph == InitWith(ParagraphTableLists, {1}, {OtherPath})

ProposeParagraphPlan == ProposePlan(ParagraphPlans)

NextParagraph ==
    \/ Extract
    \/ ProposeParagraphPlan
    \/ Validate
    \/ LoopExit
    \/ CheckResidual
    \/ Execute

SpecParagraph == InitParagraph /\ [][NextParagraph]_vars

\* The repair loop with the output written to the template's own path or
\* to another path.
InitPath ==
    InitWith(TableLists, 0..MaxAttemptsBound, {TemplatePath, OtherPath})

SpecPath == InitPath /\ [][Next]_vars

\* fill_docx_template(template_path, resume, output_path, extra_vars)
FillDocxTemplate ==
    /\ pc = "start"
    /\ LET doc == FillPlaceholders(template, Replacements)
       IN  /\ live' = [opened |-> TRUE, doc |-> doc]
           /\ output' = [saved |-> TRUE, doc |-> doc]
           /\ template' = IF outputPath = TemplatePath THEN doc ELSE template
    /\ pc' = "done"
    /\ UNCHANGED <<peer, history>>
    /\ UNCHANGED <<variant, maxAttempts, outputPath, structure, plan, errors,
                   attempt, counts, raised, calls>>

\* The fast path on every placeholder template.
InitPlaceholder ==
    /\ variant = "docx"
    /\ maxAttempts = 0
    /\ template \in PlaceholderDocs
    /\ outputPath = OtherPath
    /\ structure = [paragraphs |-> <<>>, tables |-> <<>>]
    /\ plan = Plan(<<>>)
    /\ errors = Unbound
    /\ attempt = 0
    /\ pc = "start"
    /\ live = NotOpened
    /\ output = NoFile
    /\ counts = [filled |-> 0, failed |-> 0]
    /\ raised = ""
    /\ calls = [propose |-> 0, validate |-> 0, revise |-> 0, execute |-> 0]
    /\ history = NoHistory
    /\ peer = NoPeer

NextPlaceholder == FillDocxTemplate

SpecPlaceholder == InitPlaceholder /\ [][NextPlaceholder]_vars

\* fill_hwpx_template(template_path, resume, output_path, extra_vars)
FillHwpxTemplate ==
    /\ pc = "start"
    /\ LET doc == [template EXCEPT
                      !.paragraphs = FillHwpxFrom(template.paragraphs,
                                                  HwpxReplacements, 1)]
       IN  /\ live' = [opened |-> TRUE, doc |-> doc]
           /\ output' = [saved |-> TRUE, doc |-> doc]
           /\ template' = IF outputPath = TemplatePath THEN doc ELSE template
    /\ pc' = "done"
    /\ UNCHANGED <<peer, history>>
    /\ UNCHANGED <<variant, maxAttempts, outputPath, structure, plan, errors,
                   attempt, counts, raised, calls>>

\* A call of one of the modes that fill a template without a plan.
InitMode(v, docs) ==
    /\ variant = v
    /\ maxAttempts = 0
    /\ template \in docs
    /\ outputPath \in {OtherPath, TemplatePath}
    /\ structure = [paragraphs |-> <<>>, tables |-> <<>>]
    /\ plan = Plan(<<>>)
    /\ errors = Unbound
    /\ attempt = 0
    /\ pc = "start"
    /\ live = NotOpened
    /\ output = NoFile
    /\ counts = [filled |-> 0, failed |-> 0]
    /\ raised = ""
    /\ calls = [propose |-> 0, validate |-> 0, revise |-> 0, execute |-> 0]
    /\ history = NoHistory
    /\ peer = NoPeer

\* The placeholder mode on every HWPX placeholder template.
InitHwpxPlaceholder == InitMode("hwpx", HwpxPlaceholderDocs)

NextHwpxPlaceholder == FillHwpxTemplate

SpecHwpxPlaceholder == InitHwpxPlaceholder /\ [][NextHwpxPlaceholder]_vars

\* fill_table_template up to the await of the entries: the template is
\* opened and must hold a table.
OpenTableTemplate ==
    /\ pc = "start"
    /\ live' = [opened |-> TRUE, doc |-> template]
    /\ IF template.tables = <<>>
       THEN pc' = "raised" /\ raised' = "ValueError"
       ELSE pc' = "entries" /\ raised' = raised
    /\ UNCHANGED <<peer, history>>
    /\ UNCHANGED <<variant, maxAttempts, outputPath, template, structure,
                   plan, errors, attempt, output, counts, calls>>

\* fill_table_template from the entries on: the rows of the opened
\* document's first table are filled and the document is saved.  The first
\* data row, found before the await, is the one of the opened document,
\* which nothing else holds.
FillTableRows ==
    /\ pc = "entries"
    /\ \E entries \in EntryLists :
          LET r == FillTable(live.doc, entries)
          IN  /\ live' = [opened |-> TRUE, doc |-> r.doc]
              /\ IF r.raised # ""
                 THEN /\ pc' = "raised" /\ raised' = r.raised
                      /\ output' = output
                      /\ template' = template
                 ELSE /\ pc' = "done" /\ raised' = raised
                      /\ output' = [saved |-> TRUE, doc |-> r.doc]
                      /\ template' = IF outputPath = TemplatePath
                                     THEN r.doc ELSE template
    /\ UNCHANGED <<peer, history>>
    /\ UNCHANGED <<variant, maxAttempts, outputPath, structure, plan, errors,
                   attempt, counts, calls>>

\* The table mode on every table template.
InitTable == InitMode("docx", TableDocs)

NextTable == OpenTableTemplate \/ FillTableRows

SpecTable == InitTable /\ [][NextTable]_vars

\* ExtractAgainOpen with a dict that outlives the call (one that is not
\* created anew): the call goes on with what the last call collected.
ExtractAgainOpenKeeping ==
    /\ pc = "propose"
    /\ calls.propose = 0
    /\ live' = [opened |-> TRUE, doc |-> template, structure |-> structure]
    /\ pc' = "extracting_again"
    /\ UNCHANGED <<peer, history>>
    /\ UNCHANGED <<variant, maxAttempts, outputPath, template, structure,
                   plan, errors, attempt, output, counts, raised, calls>>

\* A second call of extract_docx_structure / extract_hwpx_structure on the
\* same template path, up to its loops: the file is opened as a document of
\* the call's own, and the call's `structure` is a new dict without
\* entries.
ExtractAgainOpen ==
    /\ pc = "propose"
    /\ calls.propose = 0
    /\ live' = [opened |-> TRUE, doc |-> template,
                structure |-> [paragraphs |-> <<>>, tables |-> <<>>]]
    /\ pc' = "extracting_again"
    /\ UNCHANGED <<peer, history>>
    /\ UNCHANGED <<variant, maxAttempts, outputPath, template, structure,
                   plan, errors, attempt, output, counts, raised, calls>>

\* The loops of the second call over the document it opened, and its
\* return: every entry found is appended to the call's `structure`, which
\* is returned; the document is dropped (HWPX: closed) without having been
\* written to or saved.
ExtractAgainWalk ==
    /\ pc = "extracting_again"
    /\ LET found == ExtractStructure(variant, live.doc)
       IN  structure' =
               [paragraphs |-> live.structure.paragraphs
                                  \o found.paragraphs,
                tables     |-> live.structure.tables \o found.tables]
    /\ live' = NotOpened
    /\ pc' = "extracted_twice"
    /\ UNCHANGED <<peer, history>>
    /\ UNCHANGED <<variant, maxAttempts, outputPath, template, plan, errors,
                   attempt, output, counts, raised, calls>>

\* The extractor alone, called twice on every extraction template.
InitExtract == InitWith(ExtractTableLists, {1}, {OtherPath})

NextExtract ==
    \/ Extract
    \/ ExtractAgainOpen
    \/ ExtractAgainWalk

SpecExtract == InitExtract /\ [][NextExtract]_vars

\* One validation and one execution of every single-paragraph plan on the
\* templates of both layouts.
InitConvention ==
    /\ variant \in Variants
    /\ maxAttempts = 1
    /\ template \in ConventionDocs(variant)
    /\ outputPath = OtherPath
    /\ structure = [paragraphs |-> <<>>, tables |-> <<>>]
    /\ plan = Plan(<<>>)
    /\ errors = Unbound
    /\ attempt = 0
    /\ pc = "start"
    /\ live = NotOpened
    /\ output = NoFile
    /\ counts = [filled |-> 0, failed |-> 0]
    /\ raised = ""
    /\ calls = [propose |-> 0, validate |-> 0, revise |-> 0, execute |-> 0]
    /\ history = NoHistory
    /\ peer = NoPeer

SpecConvention == InitConvention /\ [][NextParagraph]_vars

\* The extractor on every table of the header rules.
InitRule == InitWith(RuleTableLists, {1}, {OtherPath})

NextRule == Extract

SpecRule == InitRule /\ [][NextRule]_vars

\* One validation and one execution of every plan of growing items.
InitGrow == InitWith(PairTableLists, {1}, {OtherPath})

ProposeGrowPlan == ProposePlan(GrowPlans)

NextGrow ==
    \/ Extract
    \/ ProposeGrowPlan
    \/ Validate
    \/ LoopExit
    \/ CheckResidual
    \/ Execute

SpecGrow == InitGrow /\ [][NextGrow]_vars

\* One validation and one execution of every plan of paragraph inserts and
\* replacements.
InitInsert == InitWith(ParagraphTableLists, {1}, {OtherPath})

ProposeInsertPlan == ProposePlan(InsertPlans)

NextInsert ==
    \/ Extract
    \/ ProposeInsertPlan
    \/ Validate
    \/ LoopExit
    \/ CheckResidual
    \/ Execute

SpecInsert == InitInsert /\ [][NextInsert]_vars

\* The locals of the running operation, as they are kept while it is
\* suspended at an await.
Suspended ==
    [present |-> TRUE, outputPath |-> outputPath, structure |-> structure,
     plan |-> plan, errors |-> errors, attempt |-> attempt, pc |-> pc,
     live |-> live, output |-> output, counts |-> counts, raised |-> raised,
     calls |-> calls, history |-> history]

\* A second operation that has been started with the given output path
\* and has not run yet.
StartedPeer(path) ==
    [present |-> TRUE, outputPath |-> path,
     structure |-> [paragraphs |-> <<>>, tables |-> <<>>],
     plan |-> Plan(<<>>), errors |-> Unbound, attempt |-> 0, pc |-> "start",
     live |-> NotOpened, output |-> NoFile,
     counts |-> [filled |-> 0, failed |-> 0], raised |-> "",
     calls |-> [propose |-> 0, validate |-> 0, revise |-> 0, execute |-> 0],
     history |-> NoHistory]

\* Switch with a plan that is one module-level object: the operation that
\* resumes finds the plan the other one left.
SwitchKeepingPlan ==
    /\ peer.present
    /\ pc \in {"propose", "revise", "done", "raised"}
    /\ peer.pc \notin {"done", "raised"}
    /\ peer' = Suspended
    /\ outputPath' = peer.outputPath
    /\ structure' = peer.structure
    /\ plan' = plan
    /\ errors' = peer.errors
    /\ attempt' = peer.attempt
    /\ pc' = peer.pc
    /\ live' = peer.live
    /\ output' = IF peer.outputPath = outputPath THEN output ELSE peer.output
    /\ counts' = peer.counts
    /\ raised' = peer.raised
    /\ calls' = peer.calls
    /\ history' = peer.history
    /\ UNCHANGED <<variant, maxAttempts, template>>

\* The event loop at an await: the running operation waits for
\* analyze_and_plan or _retry_with_errors (or has ended), and the other
\* operation runs on with its own locals.  The file at the output path is
\* one file when both operations were given the same path.
Switch ==
    /\ peer.present
    /\ pc \in {"propose", "revise", "done", "raised"}
    /\ peer.pc \notin {"done", "raised"}
    /\ peer' = Suspended
    /\ outputPath' = peer.outputPath
    /\ structure' = peer.structure
    /\ plan' = peer.plan
    /\ errors' = peer.errors
    /\ attempt' = peer.attempt
    /\ pc' = peer.pc
    /\ live' = peer.live
    /\ output' = IF peer.outputPath = outputPath THEN output ELSE peer.output
    /\ counts' = peer.counts
    /\ raised' = peer.raised
    /\ calls' = peer.calls
    /\ history' = peer.history
    /\ UNCHANGED <<variant, maxAttempts, template>>

\* Two fill operations on one template, with the default max_attempts.
InitConcurrent ==
    InitOf(ConcurrentTableLists, {DefaultMaxAttempts},
           {OtherPath, TemplatePath},
           {StartedPeer(path) : path \in {OtherPath, PeerPath}})

ProposeConcurrentPlan == ProposePlan(ConcurrentPlans)

ReviseConcurrentPlan == RevisePlan(ConcurrentPlans)

NextConcurrent ==
    \/ Extract
    \/ ProposeConcurrentPlan
    \/ Validate
    \/ ReviseConcurrentPlan
    \/ LoopExit
    \/ CheckResidual
    \/ Execute
    \/ Switch

SpecConcurrent == InitConcurrent /\ [][NextConcurrent]_vars

---------------------------------------------------------------------------
(* Generation from scratch: docx_renderer.generate_docx, and the DOCX
   outputs of the `tailor` command *)

\* text.startswith(prefix) and text[n:]
StartsWith(text, prefix) == OccursAt(text, prefix, 1)

DropFirst(text, n) == SubSeq(text, n + 1, Len(text))

\* content.split("\n")
RECURSIVE SplitFrom(_, _, _)
SplitFrom(text, k, line) ==
    IF k > Len(text) THEN <<line>>
    ELSE IF text[k] = "\n"
         THEN <<line>> \o SplitFrom(text, k + 1, <<>>)
         ELSE SplitFrom(text, k + 1, Append(line, text[k]))

SplitLines(text) == SplitFrom(text, 1, <<>>)

\* re.match(r"^-{3,}\s*$", line) on a stripped line
IsRule(line) == Len(line) >= 3 /\ \A k \in 1..Len(line) : line[k] = "-"

\* _strip_md_plain on the texts of the model, whose emphasis markers come
\* in pairs around a word: the markers are removed, nothing is stripped.
StripMdPlain(text) == SelectSeq(text, LAMBDA c : c # "*")

\* One match of \*{2,3}.+?\*{2,3} starting at position k, or
\* [stop |-> 0]: "**", the shortest non-empty text that is followed by
\* "**", and that "**".
BoldAt(text, k) ==
    LET closings == {j \in (k + 3)..(Len(text) - 1) :
                        text[j] = "*" /\ text[j + 1] = "*"}
    IN  IF k + 1 <= Len(text) /\ text[k] = "*" /\ text[k + 1] = "*"
           /\ closings # {}
        THEN [stop |-> 1 + CHOOSE c \in closings : \A d \in closings : c <= d]
        ELSE [stop |-> 0]

\* A run of the generated document.
Run(text, bold) == [text |-> text, bold |-> bold]

PlainRun(text) == IF text = <<>> THEN <<>> ELSE <<Run(text, FALSE)>>

\* _add_rich_text(paragraph, text): the runs added, a bold run for every
\* part between emphasis markers and a plain run for every other part
\* that is not empty.
RECURSIVE RichFrom(_, _, _)
RichFrom(text, k, plain) ==
    IF k > Len(text) THEN PlainRun(plain)
    ELSE LET m == BoldAt(text, k)
         IN  IF m.stop # 0
             THEN PlainRun(plain)
                     \o <<Run(SubSeq(text, k + 2, m.stop - 2), TRUE)>>
                     \o RichFrom(text, m.stop + 1, <<>>)
             ELSE RichFrom(text, k + 1, Append(plain, text[k]))

AddRichText(text) == RichFrom(text, 1, <<>>)

\* doc.add_paragraph(style=...) filled by _add_rich_text
RichParagraph(style, text) == [style |-> style, runs |-> AddRichText(text)]

\* doc.add_heading(text, level): add_paragraph adds a run only for a text
\* that is not empty.
Heading(text, level) ==
    [style |-> IF level = 2 THEN "Heading 2" ELSE "Heading 3",
     runs  |-> PlainRun(text)]

\* The lines after line i that the sub-bullet loop takes:
\* `while i + 1 < len(lines) and lines[i + 1].startswith("  - ")`.
RECURSIVE SubBulletCount(_, _)
SubBulletCount(lines, i) ==
    IF i + 1 < Len(lines) /\ StartsWith(lines[i + 2], <<" ", " ", "-", " ">>)
    THEN 1 + SubBulletCount(lines, i + 1)
    ELSE 0

\* The loop `while i < len(lines)` of _render_section from line i on:
\* acc = [paragraphs, raised].
RECURSIVE RenderFrom(_, _, _)
RenderFrom(lines, i, acc) ==
    IF i >= Len(lines) THEN acc
    ELSE LET line == StripText(lines[i + 1])
         IN  IF line = <<>> \/ IsRule(line)
             THEN RenderFrom(lines, i + 1, acc)
             ELSE IF StartsWith(line, <<"#", "#", "#", " ">>)
             THEN LET h == Heading(StripMdPlain(DropFirst(line, 4)), 3)
                  IN  IF h.runs = <<>>
                      THEN [acc EXCEPT !.paragraphs = Append(@, h),
                                       !.raised = "IndexError"]
                      ELSE RenderFrom(lines, i + 1,
                               [acc EXCEPT
                                   !.paragraphs = Append(@, h)])
             ELSE IF StartsWith(line, <<"-", " ">>)
                     \/ StartsWith(line, <<"*", " ">>)
             THEN LET n    == SubBulletCount(lines, i)
                      subs == [j \in 1..n |->
                                 RichParagraph("List Bullet 2",
                                     DropFirst(StripText(lines[i + 1 + j]),
                                               2))]
                  IN  RenderFrom(lines, i + n + 1,
                          [acc EXCEPT
                              !.paragraphs =
                                  Append(@, RichParagraph("List Bullet",
                                                DropFirst(line, 2)))
                                     \o subs])
             ELSE RenderFrom(lines, i + 1,
                      [acc EXCEPT
                          !.paragraphs =
                              Append(@, RichParagraph("Normal", line))])

\* _render_section(doc, label, content): acc = [paragraphs, raised].  The
\* heading is in the document when `heading.runs[0]` raises for a heading
\* without a run.
RenderSection(acc, label, content) ==
    LET heading == Heading(label, 2)
    IN  IF heading.runs = <<>>
        THEN [acc EXCEPT !.paragraphs = Append(@, heading),
                         !.raised = "IndexError"]
        ELSE RenderFrom(SplitLines(content), 0,
                        [acc EXCEPT !.paragraphs = Append(@, heading)])

\* The loop `for section in resume.sections` of generate_docx from
\* section n on.
RECURSIVE RenderSectionsFrom(_, _, _)
RenderSectionsFrom(sections, n, acc) ==
    IF n > Len(sections) \/ acc.raised # "" THEN acc
    ELSE RenderSectionsFrom(sections, n + 1,
             RenderSection(acc, sections[n].label, sections[n].content))

\* The document generate_docx builds, which holds no table: [doc, raised].
RenderDocx(sections) ==
    LET r == RenderSectionsFrom(sections, 1,
                                [paragraphs |-> <<>>, raised |-> ""])
    IN  [doc    |-> [paragraphs |-> r.paragraphs, tables |-> <<>>],
         raised |-> r.raised]

\* list_docx_placeholders(template_path): the keys of the markers in the
\* body paragraphs and in the table cells (headers are not scanned).  The
\* templates given by the texts of their paragraphs and cells instead of
\* their runs are the ones whose texts hold no marker.
ListDocxPlaceholders(doc) ==
    IF "cells" \notin DOMAIN doc THEN {}
    ELSE
    LET texts == [k \in 1..Len(doc.paragraphs) |->
                     ParaText(doc.paragraphs[k])]
                 \o [c \in 1..Len(doc.cells) |-> ParaText(doc.cells[c].runs)]
    IN  UNION {{StripText(SubSeq(texts[k], FindIter(texts[k])[m].start + 2,
                                 FindIter(texts[k])[m].stop - 2)) :
                   m \in 1..Len(FindIter(texts[k]))} : k \in 1..Len(texts)}

\* Sections of a resume: a plain line; emphasis inside a line; bullets with
\* a sub-bullet; a sub-heading after a rule and an empty line; a
\* sub-heading with emphasis and a padded line; and a section without a
\* label.
Section(label, content) == [label |-> label, content |-> content]

Sections ==
    {Section(<<"N">>, <<"K">>),
     Section(<<"F">>, <<"*", "*", "C", "*", "*", " ", "x">>),
     Section(<<"N">>, <<"-", " ", "a", "\n", " ", " ", "-", " ", "b", "\n",
                        "*", " ", "c">>),
     Section(<<"N">>, <<"-", "-", "-", "\n", "\n", "#", "#", "#", " ", "H",
                        "\n", "K">>),
     Section(<<"F">>, <<"#", "#", "#", " ", "*", "*", "H", "*", "*", "\n",
                        " ", "K", " ">>),
     Section(<<>>, <<"K">>)}

SectionLists == SeqsUpTo(Sections, MaxSections)

\* generate_docx(resume, output_path, title): alone, or as the `tailor`
\* command calls it after a DOCX fill that returned, with the path the
\* fill wrote to.
GenerateDocx ==
    /\ variant = "docx"
    /\ pc \in {"start", "done"}
    /\ \E sections \in SectionLists :
          LET r == RenderDocx(sections)
          IN  /\ live' = [opened |-> TRUE, doc |-> r.doc]
              /\ IF r.raised # ""
                 THEN /\ pc' = "raised" /\ raised' = r.raised
                      /\ output' = output
                      /\ template' = template
                 ELSE /\ pc' = "generated" /\ raised' = raised
                      /\ output' = [saved |-> TRUE, doc |-> r.doc]
                      /\ template' = IF outputPath = TemplatePath
                                     THEN r.doc ELSE template
    /\ UNCHANGED <<peer, history>>
    /\ UNCHANGED <<variant, maxAttempts, outputPath, structure, plan, errors,
                   attempt, counts, calls>>

\* The `tailor` command with --docx on a template in which
\* list_docx_placeholders finds a marker.
TailorFillDocxTemplate ==
    /\ pc = "start"
    /\ ListDocxPlaceholders(template) # {}
    /\ FillDocxTemplate

\* The `tailor` command with --docx on a template in which
\* list_docx_placeholders finds no marker: smart_fill_docx_sync with the
\* default max_attempts.
TailorSmartFillDocx ==
    \/ /\ pc = "start"
       /\ ListDocxPlaceholders(template) = {}
       /\ Extract
    \/ ProposeConcurrentPlan
    \/ Validate
    \/ ReviseConcurrentPlan
    \/ LoopExit
    \/ CheckResidual
    \/ Execute

\* Templates handed to `tailor`: every placeholder template with a marker
\* in its body or in a cell, and templates without a marker.
TailorDocs ==
    {d \in PlaceholderDocs : ListDocxPlaceholders(d) # {}}
    \cup {MakeDoc("docx", tl) : tl \in ConcurrentTableLists}

\* The DOCX outputs of `tailor`: the placeholder fill or the smart fill of
\* the template, then the generation from scratch at the same path; or the
\* generation alone.
InitTailor ==
    /\ variant = "docx"
    /\ maxAttempts = DefaultMaxAttempts
    /\ template \in TailorDocs
    /\ outputPath \in {OtherPath, TemplatePath}
    /\ structure = [paragraphs |-> <<>>, tables |-> <<>>]
    /\ plan = Plan(<<>>)
    /\ errors = Unbound
    /\ attempt = 0
    /\ pc = "start"
    /\ live = NotOpened
    /\ output = NoFile
    /\ counts = [filled |-> 0, failed |-> 0]
    /\ raised = ""
    /\ calls = [propose |-> 0, validate |-> 0, revise |-> 0, execute |-> 0]
    /\ history = NoHistory
    /\ peer = NoPeer

NextTailor ==
    \/ TailorFillDocxTemplate
    \/ TailorSmartFillDocx
    \/ GenerateDocx

SpecTailor == InitTailor /\ [][NextTailor]_vars

---------------------------------------------------------------------------
(* Properties of the repair loop *)

Terminated == pc \in {"done", "raised"}

\* The last validate_fill_plan call raised instead of returning.
ValidateRaised == pc = "raised" /\ calls.validate >= 1 /\ calls.execute = 0

\* validate_fill_plan has returned a list for the current plan.
ValidateReturned == calls.validate >= 1 /\ ~ValidateRaised /\ pc # "revise"

\* The executor has changed the document it opened.
Mutated == live.opened /\ live.doc # template

\* C1: whatever max_attempts >= 0 and whatever plans are returned, the step
\* after the loop goes on to Execute (residual errors are only logged), and
\* Execute runs at most once.
C1_LoopEndsInExecute ==
    [][(pc = "after_loop" => pc' = "execute") /\ calls'.execute <= 1]_vars

\* The number of steps the operation can still take: it bounds the passes
\* of `for attempt in range(max_attempts)` that are left.
Remaining ==
    CASE pc = "start"      -> 2 * maxAttempts + 5
      [] pc = "propose"    -> 2 * maxAttempts + 4
      [] pc = "loop"       -> 2 * (maxAttempts - attempt) + 3
      [] pc = "revise"     -> 2 * (maxAttempts - attempt) + 2
      [] pc = "after_loop" -> 2
      [] pc = "execute"    -> 1
      [] OTHER             -> 0

\* C2: with max_attempts >= 1 the operation terminates (every step lowers
\* Remaining, which never drops below 0), having called ProposePlan exactly
\* once, Validate at most max_attempts times and RevisePlan at most
\* max_attempts - 1 times.
C2_LoopTerminatesWithinBudget ==
    [][maxAttempts >= 1 =>
          /\ Remaining' < Remaining
          /\ Remaining' >= 0
          /\ calls'.propose <= 1
          /\ (pc' \notin {"start", "propose"} => calls'.propose = 1)
          /\ calls'.validate <= maxAttempts
          /\ calls'.revise <= maxAttempts - 1]_vars

\* A run that used its whole budget: max_attempts validations and
\* max_attempts - 1 revisions, and then ended.
C2_Witness ==
    /\ Terminated
    /\ maxAttempts = MaxAttemptsBound
    /\ calls.propose = 1
    /\ calls.validate = maxAttempts
    /\ calls.revise = maxAttempts - 1

\* C3: the document is opened and mutated by Execute only, and Validate has
\* been called at least once before that.
C3_ValidatedBeforeMutation ==
    Mutated => (calls.execute = 1 /\ calls.validate >= 1)

---------------------------------------------------------------------------
(* Properties of the validator and the executor *)

Items == 1..Len(plan.fill_plan)

IsTableItem(i) == plan.fill_plan[i].target = "table"

\* table_idx of item i is within [0, len(tables)).
NamesTable(i) ==
    /\ IsTableItem(i)
    /\ 0 <= plan.fill_plan[i].table_idx
    /\ plan.fill_plan[i].table_idx < Len(structure.tables)

\* The Structure Description's entry of the table item i names.
TableOf(i) == structure.tables[plan.fill_plan[i].table_idx + 1]

HeaderRowNumbers(tinfo) ==
    {tinfo.header_rows[h].row : h \in 1..Len(tinfo.header_rows)}

\* The errors reported for item i (error records carry the 0-based index).
ErrorsOf(i) == SelectSeq(errors.list, LAMBDA e : e.item = i - 1)

HasError(i, k) == \E n \in 1..Len(ErrorsOf(i)) : ErrorsOf(i)[n].kind = k

TemplateTables == DocTables(variant, template)

OutputTables == DocTables(variant, output.doc)

\* C4: when the plan validated clean, after Execute every header row of
\* every table has the cell texts it had in the template.
C4_HeaderRowsUnchanged ==
    (pc = "done" /\ ValidateReturned /\ errors.list = <<>>) =>
        \A t \in 1..Len(structure.tables) :
            \A r \in HeaderRowNumbers(structure.tables[t]) :
                OutputTables[t][r + 1] = TemplateTables[t][r + 1]

\* C5: an item that names a table of the structure and one of its header
\* rows draws exactly one error, the header-protection error, whatever its
\* fills; alone in a plan it makes the whole error list one error long.
C5_HeaderItemOneError ==
    ValidateReturned =>
        \A i \in Items :
            (NamesTable(i)
               /\ plan.fill_plan[i].row \in HeaderRowNumbers(TableOf(i)))
            => /\ Len(ErrorsOf(i)) = 1
               /\ ErrorsOf(i)[1].kind = "header"
               /\ (Len(plan.fill_plan) = 1 => Len(errors.list) = 1)

\* A header-row item with two fills of the same cell has been validated.
C5_Witness ==
    /\ ValidateReturned
    /\ Len(plan.fill_plan) = 1
    /\ NamesTable(1)
    /\ plan.fill_plan[1].row \in HeaderRowNumbers(TableOf(1))
    /\ Len(plan.fill_plan[1].fills) = 2
    /\ plan.fill_plan[1].fills[1].col = plan.fill_plan[1].fills[2].col
    /\ Len(errors.list) = 1

\* The extracted description of row r (0-based) of a table.
RowDataOf(tinfo, r) ==
    LET all == tinfo.header_rows \o tinfo.data_rows
    IN  all[CHOOSE n \in 1..Len(all) : all[n].row = r]

\* The col values the executor resolves in a row, and the grid position of
\* the cell each one denotes.
ExecutorCells(v, table, r) ==
    IF v = "docx" THEN GetUniqueCellsWithCol(table[r + 1])
    ELSE [col \in {c \in 0..(Len(table[r + 1]) - 1) :
                       HwpxCanSetCell(table, r, c)} |-> col + 1]

\* C6: for every row of every table of the template, the col values of the
\* extracted row are the col values the executor resolves, and each col
\* denotes the same cell on both sides (same text, same span of grid
\* columns).
C6_ColumnsAgree ==
    pc # "start" =>
        \A t \in 1..Len(TemplateTables) :
            \A r \in 0..(Len(TemplateTables[t]) - 1) :
                LET cells == TemplateTables[t][r + 1]
                    rd    == RowDataOf(structure.tables[t], r)
                    ec    == ExecutorCells(variant, TemplateTables[t], r)
                IN  /\ {rd.cells[k].col : k \in 1..Len(rd.cells)} = DOMAIN ec
                    /\ \A k \in 1..Len(rd.cells) :
                          LET c == rd.cells[k]
                          IN  /\ c.col \in DOMAIN ec
                              /\ c.text = Strip(cells[ec[c.col]].text)
                              /\ (variant = "docx" =>
                                    c.span = SpanOf(cells, cells[ec[c.col]].tc))

\* A DOCX template with a row whose merged cell precedes another cell has
\* been extracted: col 1 is the third grid column.
C6_Witness ==
    /\ pc # "start"
    /\ variant = "docx"
    /\ \E t \in 1..Len(TemplateTables) :
          \E r \in 0..(Len(TemplateTables[t]) - 1) :
              /\ Len(RowDataOf(structure.tables[t], r).cells) = 2
              /\ RowDataOf(structure.tables[t], r).cells[1].span = 2
              /\ GetUniqueCellsWithCol(TemplateTables[t][r + 1])[1] = 3

\* The rows of `table` beyond the first n are blank.
BlankBeyond(table, n) ==
    \A r \in (n + 1)..Len(table) :
        \A q \in 1..Len(table[r]) : table[r][q].text = ""

\* C7: for an item that names a table, Validate reports a row-range error
\* iff the row is not a header row and row >= rows + MAX_ADD_ROWS (so none
\* at rows + MAX_ADD_ROWS - 1); and Execute of a plan of one such item
\* beyond the ceiling writes no cell and counts every fill as failed.
C7_RowCeiling ==
    /\ ValidateReturned =>
          \A i \in Items :
              NamesTable(i) =>
                  (HasError(i, "row_range") <=>
                      /\ plan.fill_plan[i].row \notin HeaderRowNumbers(TableOf(i))
                      /\ plan.fill_plan[i].row >= TableOf(i).rows + MAX_ADD_ROWS)
    /\ (pc = "done" /\ Len(plan.fill_plan) = 1 /\ NamesTable(1)
          /\ plan.fill_plan[1].row >= TableOf(1).rows + MAX_ADD_ROWS)
       => /\ counts.filled = 0
          /\ counts.failed = Len(plan.fill_plan[1].fills)
          /\ \A t \in 1..Len(TemplateTables) :
                /\ SubSeq(OutputTables[t], 1, Len(TemplateTables[t]))
                      = TemplateTables[t]
                /\ BlankBeyond(OutputTables[t], Len(TemplateTables[t]))

\* The DOCX executor has run an item at exactly rows + MAX_ADD_ROWS with a
\* fill: reported by Validate, failed by Execute.
C7_Witness ==
    /\ pc = "done"
    /\ variant = "docx"
    /\ Len(plan.fill_plan) = 1
    /\ NamesTable(1)
    /\ plan.fill_plan[1].row = TableOf(1).rows + MAX_ADD_ROWS
    /\ HasError(1, "row_range")
    /\ counts.failed >= 1

\* C7, the boundary below the ceiling: an item at rows + MAX_ADD_ROWS - 1
\* has been validated without a row-range error and executed.
C7_WitnessBelow ==
    /\ pc = "done"
    /\ Len(plan.fill_plan) = 1
    /\ NamesTable(1)
    /\ plan.fill_plan[1].row = TableOf(1).rows + MAX_ADD_ROWS - 1
    /\ errors.list = <<>>

\* The col values a row appended to `table` offers.
AppendedRowCols(v, table) ==
    IF v = "docx" THEN DOMAIN GetUniqueCellsWithCol(table[Len(table)])
    ELSE 0..(ColumnCount(table) - 1)

\* C8: in both variants, Execute of a plan of one item with
\* rows <= row < rows + MAX_ADD_ROWS, whose fills address cells of the
\* appended row, appends rows until index row exists and counts no failure.
C8_AppendsRows ==
    (pc = "done" /\ Len(plan.fill_plan) = 1 /\ NamesTable(1)
       /\ plan.fill_plan[1].row >= TableOf(1).rows
       /\ plan.fill_plan[1].row < TableOf(1).rows + MAX_ADD_ROWS
       /\ plan.fill_plan[1].fills # <<>>
       /\ \A f \in 1..Len(plan.fill_plan[1].fills) :
             plan.fill_plan[1].fills[f].col \in
                 AppendedRowCols(variant,
                     TemplateTables[plan.fill_plan[1].table_idx + 1]))
    => /\ Len(OutputTables[plan.fill_plan[1].table_idx + 1])
             = plan.fill_plan[1].row + 1
       /\ counts.failed = 0

\* C9: Validate reports a table_idx range error for exactly the table items
\* whose table_idx is outside [0, len(tables)), negative values included.
C9_TableIdxRangeError ==
    calls.validate >= 1 =>
        /\ ~ValidateRaised
        /\ \A i \in Items :
              IsTableItem(i) => (HasError(i, "table_idx") <=> ~NamesTable(i))

\* The fill entries of the plan: <<i, f>> is entry f of item i.
Entries ==
    {e \in (Items \X (1..MaxFillsPerItem)) :
        IsTableItem(e[1]) /\ e[2] <= Len(plan.fill_plan[e[1]].fills)}

\* The (table_idx, row, col) triple an entry addresses.
TripleOf(e) ==
    <<plan.fill_plan[e[1]].table_idx, plan.fill_plan[e[1]].row,
      plan.fill_plan[e[1]].fills[e[2]].col>>

\* Entry a comes before entry b in the plan.
Before(a, b) == a[1] < b[1] \/ (a[1] = b[1] /\ a[2] < b[2])

\* Entries a and b are the only two entries of their common triple.
OnlyPair(a, b) ==
    /\ Before(a, b)
    /\ TripleOf(a) = TripleOf(b)
    /\ \A c \in Entries : TripleOf(c) = TripleOf(a) => c \in {a, b}

Count(seq, x) == Cardinality({n \in 1..Len(seq) : seq[n] = x})

DuplicateErrors(k) ==
    {n \in 1..Len(errors.list) :
        /\ errors.list[n].kind = "duplicate"
        /\ <<errors.list[n].table_idx, errors.list[n].row,
             errors.list[n].col>> = k}

\* Item i passes the checks Validate makes before it looks at the fills:
\* table_idx < len(tables), row not a header row of table table_idx, and
\* row < rows + MAX_ADD_ROWS.
PassesItemChecks(i) ==
    LET it == plan.fill_plan[i]
        n  == Len(structure.tables)
    IN  /\ PyInRange(n, it.table_idx)
        /\ ~(NamesTable(i) /\ it.row \in HeaderRowNumbers(TableOf(i)))
        /\ it.row < structure.tables[PyPos(n, it.table_idx)].rows + MAX_ADD_ROWS

\* The plan without entry e.
WithoutEntry(e) ==
    LET it == plan.fill_plan[e[1]]
        fs == SubSeq(it.fills, 1, e[2] - 1)
                 \o SubSeq(it.fills, e[2] + 1, Len(it.fills))
    IN  [plan EXCEPT !.fill_plan[e[1]].fills = fs]

\* C10 as claimed: two entries alone on one triple draw exactly one
\* duplicate-fill error for it, in every plan.
C10_OneDuplicateErrorPerPair ==
    ValidateReturned =>
        \A a, b \in Entries :
            OnlyPair(a, b) => Cardinality(DuplicateErrors(TripleOf(a))) = 1

\* C10 as amended: when the items of both entries pass the item checks, the
\* pair draws exactly one duplicate-fill error, reported at the later
\* entry's item, and the duplication causes no other error: against the plan
\* without the later entry, the error list gains that error and at most the
\* later entry's own column error.  A pair in an item that fails an item
\* check draws no duplicate error.
C10_OneDuplicateErrorWhenItemsPass ==
    ValidateReturned =>
        \A a, b \in Entries :
            OnlyPair(a, b) =>
                LET k    == TripleOf(a)
                    dupE == [item |-> b[1] - 1, kind |-> "duplicate",
                             table_idx |-> k[1], row |-> k[2], col |-> k[3]]
                    colE == [item |-> b[1] - 1, kind |-> "col",
                             table_idx |-> k[1], row |-> k[2], col |-> k[3]]
                    E    == errors.list
                    E2   == ValidateFillPlan(structure, WithoutEntry(b)).errors
                IN  IF PassesItemChecks(a[1]) /\ PassesItemChecks(b[1])
                    THEN /\ Cardinality(DuplicateErrors(k)) = 1
                         /\ Count(E, dupE) = 1
                         /\ Count(E2, dupE) = 0
                         /\ Count(E, colE) - Count(E2, colE) \in {0, 1}
                         /\ \A n \in 1..Len(E) :
                               E[n] \notin {dupE, colE} =>
                                   Count(E, E[n]) = Count(E2, E[n])
                         /\ Len(E) - Len(E2) =
                               1 + Count(E, colE) - Count(E2, colE)
                    ELSE DuplicateErrors(k) = {}

\* Two items that pass the item checks fill the same cell, and the
\* validated plan has exactly one duplicate error, at the second item.
C10_Witness ==
    /\ ValidateReturned
    /\ Len(plan.fill_plan) = 2
    /\ \E a, b \in Entries :
          /\ a[1] = 1 /\ b[1] = 2
          /\ NamesTable(1) /\ NamesTable(2)
          /\ OnlyPair(a, b)
          /\ PassesItemChecks(1) /\ PassesItemChecks(2)
          /\ DuplicateErrors(TripleOf(a)) # {}
          /\ \A n \in DuplicateErrors(TripleOf(a)) : errors.list[n].item = 1

---------------------------------------------------------------------------
(* Column errors *)

\* Item i names a table of the structure and one of its rows 0..rows-1.
RowInStructure(i) ==
    /\ NamesTable(i)
    /\ 0 <= plan.fill_plan[i].row
    /\ plan.fill_plan[i].row < TableOf(i).rows

\* The col values the Extractor emitted for the row item i names.
ExtractedCols(i) ==
    LET rd == RowDataOf(TableOf(i), plan.fill_plan[i].row)
    IN  {rd.cells[k].col : k \in 1..Len(rd.cells)}

\* The number of column errors reported for item i and col c.
ColErrors(i, c) ==
    Cardinality({n \in 1..Len(ErrorsOf(i)) :
                    ErrorsOf(i)[n].kind = "col" /\ ErrorsOf(i)[n].col = c})

\* The number of fill entries of item i with col c.
FillsAt(i, c) ==
    Cardinality({f \in 1..Len(plan.fill_plan[i].fills) :
                    plan.fill_plan[i].fills[f].col = c})

\* C11 as claimed: for a fill entry of an item whose (table_idx, row) is a
\* row of the structure, header or data, a column error is reported iff
\* col is not among the row's extracted col values; for any other row no
\* column error is reported.
C11_ColumnErrorIffUnknownCol ==
    ValidateReturned =>
        \A i \in Items :
            IsTableItem(i) =>
                \A f \in 1..Len(plan.fill_plan[i].fills) :
                    LET c == plan.fill_plan[i].fills[f].col
                    IN  IF RowInStructure(i)
                        THEN ColErrors(i, c) > 0 <=> c \notin ExtractedCols(i)
                        ELSE ColErrors(i, c) = 0

\* C11 as amended: for a fill entry of an item whose (table_idx, row) is a
\* data row of the structure, one column error per entry is reported iff
\* col is not among the row's extracted col values; for a header row (the
\* item is rejected with the header error alone) and for a row that is not
\* in the structure no column error is reported.
C11_ColumnErrorIffUnknownColOfDataRow ==
    ValidateReturned =>
        \A i \in Items :
            IsTableItem(i) =>
                \A f \in 1..Len(plan.fill_plan[i].fills) :
                    LET c == plan.fill_plan[i].fills[f].col
                    IN  IF /\ RowInStructure(i)
                           /\ plan.fill_plan[i].row
                                 \notin HeaderRowNumbers(TableOf(i))
                        THEN ColErrors(i, c) =
                                IF c \in ExtractedCols(i) THEN 0
                                ELSE FillsAt(i, c)
                        ELSE ColErrors(i, c) = 0

\* A DOCX item on a data row whose first two grid columns are merged fills
\* col 2, the grid's last column but no extracted col: a column error.
C11_Witness ==
    /\ ValidateReturned
    /\ variant = "docx"
    /\ Len(plan.fill_plan) = 1
    /\ RowInStructure(1)
    /\ plan.fill_plan[1].row \notin HeaderRowNumbers(TableOf(1))
    /\ ExtractedCols(1) = {0, 1}
    /\ TableOf(1).cols = 3
    /\ Len(plan.fill_plan[1].fills) = 1
    /\ plan.fill_plan[1].fills[1].col = 2
    /\ ColErrors(1, 2) = 1

---------------------------------------------------------------------------
(* Paragraph items and the executor's failure handling *)

IsParagraphItem(i) == plan.fill_plan[i].target = "paragraph"

\* The range error the claim gives item i: kind of error, or "" for none.
ParagraphRangeError(i) ==
    LET it == plan.fill_plan[i]
        n  == Len(structure.paragraphs)
    IN  IF /\ ItemAction(it) = "replace"
           /\ HasKey(it, "paragraph_idx") /\ it.paragraph_idx >= n
        THEN "paragraph_idx"
        ELSE IF /\ ItemAction(it) = "insert"
                /\ HasKey(it, "after_paragraph_idx")
                /\ it.after_paragraph_idx >= n
        THEN "after_paragraph_idx"
        ELSE ""

\* C12: a paragraph item draws a range error iff its action is replace and
\* paragraph_idx >= len(structure.paragraphs), or its action is insert and
\* after_paragraph_idx >= len(structure.paragraphs); it draws no other
\* error.
C12_ParagraphRangeError ==
    ValidateReturned =>
        \A i \in Items :
            IsParagraphItem(i) =>
                IF ParagraphRangeError(i) = ""
                THEN ErrorsOf(i) = <<>>
                ELSE /\ Len(ErrorsOf(i)) = 1
                     /\ ErrorsOf(i)[1].kind = ParagraphRangeError(i)

\* A replace item whose paragraph_idx is exactly the number of paragraph
\* entries of the structure has drawn the range error.
C12_Witness ==
    /\ ValidateReturned
    /\ Len(plan.fill_plan) = 1
    /\ IsParagraphItem(1)
    /\ ItemAction(plan.fill_plan[1]) = "replace"
    /\ HasKey(plan.fill_plan[1], "paragraph_idx")
    /\ plan.fill_plan[1].paragraph_idx = Len(structure.paragraphs)
    /\ Len(structure.paragraphs) >= 1
    /\ HasError(1, "paragraph_idx")

\* C13: Execute raises no exception, whatever integer indices the plan
\* holds: once called it ends with the output document saved.
C13_ExecuteNeverRaises ==
    calls.execute >= 1 => (pc = "done" /\ raised = "" /\ output.saved)

\* C14: a plan of one paragraph item that left the document as the
\* template was (nothing written) counts no fill as filled and the one
\* fill as failed.
C14_CountsMatchWrites ==
    (pc = "done" /\ Len(plan.fill_plan) = 1 /\ IsParagraphItem(1)
       /\ output.doc = template)
    => (counts.filled = 0 /\ counts.failed = 1)

\* C15: Validate returns its error list and never raises, for any integer
\* table_idx and any number of tables.
C15_ValidateNeverRaises ==
    (calls.validate >= 1 /\ calls.execute = 0) => raised = ""

---------------------------------------------------------------------------
(* The template file *)

\* C16: whatever the output path is, the template path itself included, no
\* step of a fill operation changes the content of the template file.
C16_TemplateFileUnchanged == [][template' = template]_vars

---------------------------------------------------------------------------
(* Placeholder markers *)

\* The paragraphs of a placeholder document, wherever they sit.
AllParagraphs(doc) ==
    doc.paragraphs \o [c \in 1..Len(doc.cells) |-> doc.cells[c].runs]
                   \o doc.headers

\* The paragraph's text holds a {{key}} marker whose key is in the map.
KnownMarkerIn(runs) ==
    \E k \in 1..Len(FindIter(ParaText(runs))) :
        LookupKey(Replacements,
                  MatchKey(ParaText(runs), FindIter(ParaText(runs))[k])) # 0

\* C17: after fill_docx_template no paragraph of the output document holds
\* a {{key}} marker whose key is in the replacement map, whether the marker
\* sat in one run or across runs, alone or with other markers.
C17_NoKnownMarkerRemains ==
    pc = "done" =>
        \A k \in 1..Len(AllParagraphs(output.doc)) :
            ~KnownMarkerIn(AllParagraphs(output.doc)[k])

---------------------------------------------------------------------------
(* Properties of the extractor *)

\* The row numbers listed in a sequence of row descriptions, with
\* repetitions counted.
RowCount(rows, r) == Cardinality({n \in 1..Len(rows) : rows[n].row = r})

\* Every cell of a grid row is empty after strip().
AllEmptyRow(cells) == \A q \in 1..Len(cells) : Strip(cells[q].text) = ""

C19_RowsPartitioned ==
    pc # "start" =>
        \A t \in 1..Len(structure.tables) :
            LET ti == structure.tables[t]
            IN  /\ ti.rows = Len(TemplateTables[t])
                /\ Len(ti.header_rows) + Len(ti.data_rows) = ti.rows
                /\ \A r \in 0..(ti.rows - 1) :
                      RowCount(ti.header_rows, r)
                          + RowCount(ti.data_rows, r) = 1

\* A table with a header row, an all-empty data row and, from index 2 on,
\* a data row that is not empty has been extracted.
C19_Witness ==
    /\ pc # "start"
    /\ structure.tables[1].header_rows # <<>>
    /\ \E n, m \in 1..Len(structure.tables[1].data_rows) :
          /\ NonEmptyCells(structure.tables[1].data_rows[n].cells) # <<>>
          /\ NonEmptyCells(structure.tables[1].data_rows[m].cells) = <<>>

\* C20: a row all of whose cells are empty, a row without cells included,
\* is listed in data_rows and not in header_rows, at every index and
\* whatever row follows it.
C20_EmptyRowIsData ==
    pc # "start" =>
        \A t \in 1..Len(TemplateTables) :
            \A r \in 0..(Len(TemplateTables[t]) - 1) :
                AllEmptyRow(TemplateTables[t][r + 1]) =>
                    /\ RowCount(structure.tables[t].data_rows, r) = 1
                    /\ RowCount(structure.tables[t].header_rows, r) = 0

\* An all-empty row at index 0 followed by a full label row has been
\* extracted: row 0 is data, row 1 is header.
C20_Witness ==
    /\ pc # "start"
    /\ Len(TemplateTables[1]) >= 2
    /\ TemplateTables[1][1] = BlankRow
    /\ TemplateTables[1][2] = LabelRow
    /\ RowCount(structure.tables[1].data_rows, 0) = 1
    /\ RowCount(structure.tables[1].header_rows, 1) = 1

\* C20, the row without cells: a table of such rows has been extracted
\* with row 0 as data.
C20_WitnessNoCells ==
    /\ pc # "start"
    /\ TemplateTables[1][1] = <<>>
    /\ RowCount(structure.tables[1].data_rows, 0) = 1

---------------------------------------------------------------------------
(* The paragraph-index convention *)

\* The entries of structure.paragraphs with the given idx.
EntriesAt(idx) ==
    {n \in 1..Len(structure.paragraphs) : structure.paragraphs[n].idx = idx}

\* The positions of the template's paragraphs whose text is `text`.
ParagraphsWithText(text) ==
    {p \in 1..Len(template.paragraphs) :
        Strip(template.paragraphs[p].text) = text}

\* The plan is one replace item whose paragraph_idx is the idx of an entry
\* of the structure.
ReplacesExtracted ==
    /\ Len(plan.fill_plan) = 1
    /\ IsParagraphItem(1)
    /\ ItemAction(plan.fill_plan[1]) = "replace"
    /\ HasKey(plan.fill_plan[1], "paragraph_idx")
    /\ EntriesAt(plan.fill_plan[1].paragraph_idx) # {}

\* C21: in each variant, a replace item whose paragraph_idx is the idx of
\* an extracted paragraph entry, executed on the unmodified template,
\* rewrites exactly the paragraph whose text was extracted under that idx:
\* that paragraph shows the item's value and every other one is as it was.
C21_SameParagraphConvention ==
    (pc = "done" /\ ReplacesExtracted) =>
        \A n \in EntriesAt(plan.fill_plan[1].paragraph_idx) :
            \A p \in ParagraphsWithText(structure.paragraphs[n].text) :
                output.doc.paragraphs =
                    [template.paragraphs EXCEPT
                        ![p].text = StripMd(ItemValue(plan.fill_plan[1]))]

\* C21 in the DOCX variant alone, where it holds.
C21_DocxConvention == variant = "docx" => C21_SameParagraphConvention

\* A DOCX replace item on the extracted idx of the paragraph that follows
\* an empty one has been executed.
C21_DocxWitness ==
    /\ pc = "done"
    /\ variant = "docx"
    /\ ReplacesExtracted
    /\ plan.fill_plan[1].paragraph_idx = 1
    /\ output.doc.paragraphs[2].text = "Lead"

---------------------------------------------------------------------------
(* The header rules *)

\* Row r (0-based) of the extracted table is listed as a header row.
ListedHeader(tinfo, r) == RowCount(tinfo.header_rows, r) = 1

\* The number of non-empty cells of an extracted row that hold a label
\* keyword.
LabelCells(cells) ==
    Cardinality({c \in 1..Len(cells) :
                    ~cells[c].empty /\ HasLabelKeyword(cells[c].text)})

\* The three rules of the claim for row r of an extracted table.
HeaderRules(tinfo, r) ==
    LET cells == RowDataOf(tinfo, r).cells
        n == Len(cells)
        k == Len(NonEmptyCells(cells))
        hasNext == r + 1 < tinfo.rows
        next == IF hasNext THEN RowDataOf(tinfo, r + 1).cells ELSE <<>>
        m == Len(next)
        e == Len(EmptyCells(next))
    IN  \/ r < 2 /\ 10 * k > 3 * n
        \/ 2 * k >= n /\ LabelCells(cells) >= 2
        \/ 10 * k >= 6 * n /\ hasNext /\ 2 * e >= Max(m, 1)

\* C23: a row with n cells of which k >= 1 are non-empty, at index ri, is a
\* header exactly when (ri < 2 and 10k > 3n) or (2k >= n and at least two
\* non-empty cells hold a label keyword) or (10k >= 6n and there is a next
\* row, with m cells of which e are empty, and 2e >= max(m, 1)); the last
\* row of a table is never a header by the third rule.
C23_HeaderRules ==
    pc # "start" =>
        \A t \in 1..Len(structure.tables) :
            \A r \in 0..(structure.tables[t].rows - 1) :
                NonEmptyCells(RowDataOf(structure.tables[t], r).cells) # <<>>
                => (ListedHeader(structure.tables[t], r)
                       <=> HeaderRules(structure.tables[t], r))

\* A row at index 2 with three of five cells filled, one of them a label,
\* before a row that is more than half empty has been extracted: a header
\* by the third rule alone, at the bound 10k = 6n.
C23_Witness ==
    /\ pc # "start"
    /\ structure.tables[1].rows = 4
    /\ LET cells == RowDataOf(structure.tables[1], 2).cells
           next  == RowDataOf(structure.tables[1], 3).cells
       IN  /\ Len(cells) = 5
           /\ Len(NonEmptyCells(cells)) = 3
           /\ LabelCells(cells) = 1
           /\ 2 * Len(EmptyCells(next)) >= Len(next)
           /\ 2 * Len(EmptyCells(next)) < Len(next) + 2
    /\ ListedHeader(structure.tables[1], 2)

\* C23, the first rule: rows at index 0 with one filled cell of three
\* (header) and one of four (no header) have been extracted.
C23_WitnessEarly ==
    /\ pc # "start"
    /\ LET cells == RowDataOf(structure.tables[1], 0).cells
       IN  /\ Len(cells) = 4
           /\ Len(NonEmptyCells(cells)) = 1
    /\ ~ListedHeader(structure.tables[1], 0)

\* C23, the last row: a full row without labels at index 2 that ends the
\* table has been extracted as a data row.
C23_WitnessLast ==
    /\ pc # "start"
    /\ structure.tables[1].rows = 3
    /\ LET cells == RowDataOf(structure.tables[1], 2).cells
       IN  /\ Len(NonEmptyCells(cells)) = Len(cells)
           /\ LabelCells(cells) = 0
    /\ ~ListedHeader(structure.tables[1], 2)

---------------------------------------------------------------------------
(* Growth of a table *)

\* C24: whatever the plan, validated or not and with any number of table
\* items, after one Execute no table has more than its original row count
\* + MAX_ADD_ROWS rows.
C24_TotalGrowthCapped ==
    pc = "done" =>
        \A t \in 1..Len(TemplateTables) :
            Len(OutputTables[t]) <= Len(TemplateTables[t]) + MAX_ADD_ROWS

\* C24 for the plans Validate accepted: a plan without errors keeps every
\* table within its original row count + MAX_ADD_ROWS.
C24_GrowthCappedWhenValid ==
    (pc = "done" /\ errors.list = <<>>) =>
        \A t \in 1..Len(TemplateTables) :
            Len(OutputTables[t]) <= Len(TemplateTables[t]) + MAX_ADD_ROWS

\* A valid plan of two items has made a table grow by MAX_ADD_ROWS rows.
C24_ValidWitness ==
    /\ pc = "done"
    /\ errors.list = <<>>
    /\ Len(plan.fill_plan) = 2
    /\ Len(OutputTables[1]) = Len(TemplateTables[1]) + MAX_ADD_ROWS

\* C27: when the one table item of a plan fails in the DOCX executor
\* because its row is not reached within MAX_ADD_ROWS appended rows, the
\* table has as many rows after the item as before it.
C27_FailedItemAddsNoRow ==
    (pc = "done" /\ variant = "docx" /\ Len(plan.fill_plan) = 1
       /\ NamesTable(1)
       /\ plan.fill_plan[1].row >=
             Len(TemplateTables[plan.fill_plan[1].table_idx + 1]) + MAX_ADD_ROWS)
    => Len(OutputTables[plan.fill_plan[1].table_idx + 1])
          = Len(TemplateTables[plan.fill_plan[1].table_idx + 1])

---------------------------------------------------------------------------
(* Paragraph indices within one Execute *)

\* The plan is an insert after paragraph a followed by a replace of
\* paragraph b.
InsertThenReplace ==
    /\ Len(plan.fill_plan) = 2
    /\ plan.fill_plan[1] \in {InsertItem(a) : a \in BodyIdxValues}
    /\ plan.fill_plan[2] \in {ReplaceItem(b) : b \in BodyIdxValues}

\* The document the DOCX executor leaves when both indices name the
\* paragraphs that had them at extraction: paragraph b rewritten, and the
\* new paragraph after paragraph a.
ResolvedAsExtracted ==
    LET a == plan.fill_plan[1].after_paragraph_idx
        b == plan.fill_plan[2].paragraph_idx
        replaced == [template.paragraphs EXCEPT ![b + 1].text = "Lead"]
    IN  InsertAt(replaced, a + 1, [text |-> "ACME", tables |-> <<>>])

\* C28: in one DOCX Execute an insert item does not move the indices of
\* the items after it: after `insert after a` and `replace b` the paragraph
\* that had index b at extraction shows the new text, the new paragraph
\* follows the one that had index a, and nothing else changed.
C28_IndicesAsExtracted ==
    (pc = "done" /\ variant = "docx" /\ InsertThenReplace)
    => output.doc.paragraphs = ResolvedAsExtracted

\* C28 where the insert is not before the replaced paragraph: there the
\* indices are as extracted.
C28_IndicesAsExtractedBefore ==
    (pc = "done" /\ variant = "docx" /\ InsertThenReplace
       /\ plan.fill_plan[2].paragraph_idx
             <= plan.fill_plan[1].after_paragraph_idx)
    => output.doc.paragraphs = ResolvedAsExtracted

\* An insert after paragraph 1 and a replace of paragraph 0 have been
\* executed.
C28_WitnessBefore ==
    /\ pc = "done"
    /\ variant = "docx"
    /\ InsertThenReplace
    /\ plan.fill_plan[1].after_paragraph_idx = 1
    /\ plan.fill_plan[2].paragraph_idx = 0
    /\ Len(output.doc.paragraphs) = Len(template.paragraphs) + 1

\* The index item i is validated on: paragraph_idx of a replace item,
\* after_paragraph_idx of an insert item; {} if it has none.
TargetIdx(i) ==
    LET it == plan.fill_plan[i]
    IN  IF ItemAction(it) = "replace" /\ HasKey(it, "paragraph_idx")
        THEN {it.paragraph_idx}
        ELSE IF ItemAction(it) = "insert" /\ HasKey(it, "after_paragraph_idx")
        THEN {it.after_paragraph_idx}
        ELSE {}

\* C29: a paragraph item whose paragraph_idx (replace) or
\* after_paragraph_idx (insert) is the idx of an entry of the extracted
\* structure draws no error from Validate, also when empty paragraphs
\* precede the entry's paragraph.
C29_ExtractedIdxAccepted ==
    ValidateReturned =>
        \A i \in Items :
            (IsParagraphItem(i)
               /\ \E idx \in TargetIdx(i) : EntriesAt(idx) # {})
            => ErrorsOf(i) = <<>>

---------------------------------------------------------------------------
(* Validator and executor on accepted plans *)

\* C30: a plan for which Validate returned no errors, executed on the
\* unmodified template, ends with failed = 0: every fill entry the
\* Validator accepted resolves to a cell in the Executor.
C30_AcceptedPlanNeverFails ==
    (pc = "done" /\ ValidateReturned /\ errors.list = <<>>)
    => counts.failed = 0

\* C30 in DOCX for accepted items on a row of the structure: there every
\* accepted fill resolves.
C30_AcceptedRowNeverFails ==
    (pc = "done" /\ ValidateReturned /\ errors.list = <<>>
       /\ variant = "docx" /\ Len(plan.fill_plan) = 1 /\ RowInStructure(1))
    => counts.failed = 0

\* An accepted DOCX item has filled col 1 of a data row with a merged
\* cell.
C30_RowWitness ==
    /\ pc = "done"
    /\ errors.list = <<>>
    /\ variant = "docx"
    /\ Len(plan.fill_plan) = 1
    /\ RowInStructure(1)
    /\ ExtractedCols(1) = {0, 1}
    /\ Len(plan.fill_plan[1].fills) = 1
    /\ plan.fill_plan[1].fills[1].col = 1
    /\ counts.filled = 1

---------------------------------------------------------------------------
(* The calls of the repair loop *)

\* The step is a call of _retry_with_errors.
RevisePlanCalled == calls'.revise = calls.revise + 1

\* The step is a call of validate_fill_plan.
ValidateCalled == calls'.validate = calls.validate + 1

\* C25: the external calls of one fill operation are strictly sequential.
\* Every RevisePlan call follows a Validate call that returned a non-empty
\* error list, with no other call between them, and receives the plan that
\* Validate checked, that error list and the structure extracted at the
\* start; every Validate call runs on the plan the last plan-generation
\* call returned, and each one after the first follows a RevisePlan call.
C25_StrictlySequential ==
    [][/\ RevisePlanCalled =>
             /\ history.validate.called
             /\ history.validate.raised = ""
             /\ history.validate.errors # <<>>
             /\ calls.validate = calls.revise + 1
             /\ history'.revise.plan = history.validate.plan
             /\ history'.revise.errors = Bound(history.validate.errors)
             /\ history'.revise.structure
                   = ExtractStructure(variant, template)
       /\ ValidateCalled =>
             /\ history.received.called
             /\ history'.validate.plan = history.received.plan
             /\ calls.validate = calls.revise
             /\ ~RevisePlanCalled]_vars

\* A revised plan, different from the plan that was sent to revision, has
\* been validated.
C25_Witness ==
    /\ calls.revise >= 1
    /\ calls.validate = calls.revise + 1
    /\ history.revise.called
    /\ history.validate.called
    /\ history.revise.errors.list # <<>>
    /\ history.validate.plan # history.revise.plan
    /\ history.validate.plan = history.received.plan

\* C26: for every max_attempts >= 1 the plan handed to Execute is the plan
\* of the last Validate call, which is the plan the last plan-generation
\* call returned; residual errors are logged after the loop exactly when
\* that Validate reported some, and the errors logged are the ones it
\* reported for the executed plan.
C26_ExecutedPlanWasValidated ==
    (maxAttempts >= 1 /\ history.execute.called) =>
        /\ history.validate.called
        /\ history.execute.plan = history.validate.plan
        /\ history.execute.plan = history.received.plan
        /\ history.validate.errors
              = ValidateFillPlan(structure, history.execute.plan).errors
        /\ history.residual.called <=> history.validate.errors # <<>>
        /\ history.residual.called =>
              history.residual.errors = history.validate.errors

\* A plan that came from RevisePlan and still has errors has been executed
\* after the whole budget of max_attempts passes, its errors logged.
C26_Witness ==
    /\ pc = "done"
    /\ maxAttempts = MaxAttemptsBound
    /\ calls.revise = maxAttempts - 1
    /\ calls.revise >= 1
    /\ history.execute.called
    /\ history.execute.plan # history.revise.plan
    /\ history.residual.called
    /\ history.residual.errors # <<>>

---------------------------------------------------------------------------
(* Concurrent fill operations *)

\* The output paths of the two operations name two files, neither of them
\* the template.
DistinctOutputPaths ==
    /\ peer.present
    /\ outputPath # peer.outputPath
    /\ TemplatePath \notin {outputPath, peer.outputPath}

\* The file at the suspended operation's output path.
PeerFile == IF peer.outputPath = outputPath THEN output ELSE peer.output

\* The operation with locals o and output file `file` is where a run of
\* its own on the template would be: its structure is the template's, its
\* plan is the one its last plan-generation call returned, its errors are
\* Validate's for the plan it validated last, its calls are within the
\* budget of one run, and its output, once it is done, is Execute's result
\* for its plan on the template.
AsAlone(o, file) ==
    /\ o.pc # "start" => o.structure = ExtractStructure(variant, template)
    /\ o.pc \notin {"start", "propose"} =>
          /\ o.history.received.called
          /\ o.plan = o.history.received.plan
    /\ o.history.validate.called =>
          LET r == ValidateFillPlan(o.structure, o.history.validate.plan)
          IN  /\ o.history.validate.errors = r.errors
              /\ o.history.validate.raised = r.raised
              /\ r.raised = "" => o.errors = Bound(r.errors)
    /\ o.pc = "revise" =>
          /\ o.history.validate.plan = o.plan
          /\ o.errors.list # <<>>
    /\ o.calls.propose <= 1
    /\ o.calls.validate <= maxAttempts
    /\ o.calls.revise <= maxAttempts - 1
    /\ o.calls.validate \in {o.calls.revise, o.calls.revise + 1}
    /\ o.calls.execute <= 1
    /\ IF o.pc = "done"
       THEN LET r == ExecuteFillPlan(variant, template, o.plan)
            IN  /\ o.history.validate.plan = o.plan
                /\ file = [saved |-> TRUE, doc |-> r.doc]
                /\ o.counts = [filled |-> r.filled, failed |-> r.failed]
       ELSE file = NoFile

\* C22 for output paths that name two files, neither of them the
\* template: the two operations share no mutable state; each one is at
\* every moment where a run of its own would be, writes the output that
\* run would write, and no step changes the template.
C22_ConcurrentAsAlone ==
    /\ [](DistinctOutputPaths =>
             AsAlone(Suspended, output) /\ AsAlone(peer, PeerFile))
    /\ [][DistinctOutputPaths => template' = template]_vars

\* One operation has revised its plan, executed it and written its output
\* while the other one, started before, waits for the revision of a
\* different plan.
C22_Witness ==
    /\ DistinctOutputPaths
    /\ pc = "done"
    /\ calls.revise = 1
    /\ output.saved
    /\ peer.pc = "revise"
    /\ peer.plan # plan
    /\ peer.output = NoFile

\* Both operations have ended, with different plans and different
\* outputs.
C22_WitnessBothDone ==
    /\ DistinctOutputPaths
    /\ pc = "done"
    /\ peer.pc = "done"
    /\ peer.plan # plan
    /\ peer.output.doc # output.doc

\* C22 without any condition on the paths: it fails as well when both
\* operations write one file.
C22_AnyOutputPaths ==
    [](peer.present =>
          AsAlone(Suspended, output) /\ AsAlone(peer, PeerFile))

\* C22 as stated: two fill operations on one template whose output paths
\* are distinct, interleaved at their plan-generation awaits, are each at
\* every moment where a run of its own would be and write the output that
\* run would write, and no step of either changes the template.
C22_DistinctPathsAsAlone ==
    /\ [](peer.present /\ outputPath # peer.outputPath =>
             AsAlone(Suspended, output) /\ AsAlone(peer, PeerFile))
    /\ [][peer.present /\ outputPath # peer.outputPath =>
             template' = template]_vars

===========================================================================
